---------------------------- MODULE Spec2Model ----------------------------
(***************************************************************************)
(* A model of the CDR detector pages of anomalyze-web                      *)
(* (src/pages/cdr_pages/*.py): the column normalizer, the validator, the   *)
(* per-page run() controller with its Streamlit session state, and the     *)
(* scoring rules of the detectors.                                         *)
(*                                                                         *)
(* Python strings are TLA+ strings; they are taken apart with SubSeq and   *)
(* put together with \o, so lower(), upper(), replace() and startswith()   *)
(* are computed character by character as the code computes them.          *)
(***************************************************************************)
EXTENDS Integers, Sequences, FiniteSets, TLC

VARIABLES
    det,        \* the detector page (module) in use
    df,         \* normalizer: the table handed to normalize_columns
    ndf,        \* normalizer: normalize_columns(df)
    ndf2,       \* normalizer: normalize_columns(normalize_columns(df))
    npc,        \* normalizer: "input", "normalized" or "renormalized"
    runs,       \* page: the number of script runs of the page so far
    session,    \* page: st.session_state, kept from one run to the next
    last,       \* page: what the latest run of the page did and showed
    rows,       \* analysis: the rows of the validated table, as read
    cfg,        \* analysis: the thresholds the user has set
    out,        \* analysis: what analyze_logic returned
    apc,        \* analysis: "input" or "done"
    tbl,        \* analysis: the caller's table after analyze_logic, where followed
    out2        \* analysis: what a second call of analyze_logic returned

vars == <<det, df, ndf, ndf2, npc, runs, session, last, rows, cfg, out, apc, tbl, out2>>

----------------------------------------------------------------------------
(* Bounds of the model.                                                    *)

\* the largest number of columns of an input table of the normalizer
MaxCols == 3

\* the largest number of script runs of one page
MaxRuns == 3

\* the largest number of rows of a table handed to analyze_logic
MaxRows == 3

\* the largest threshold the user sets
MaxThreshold == 2

\* the largest number of toll-free destinations called a second time
MaxRepeats == 2

\* the largest number of called numbers in the sets that are compared
MaxContacts == 3

----------------------------------------------------------------------------
(* The five detector pages and their configuration constants.              *)

Call_Spikes == "Call_Spikes"
Strange_sim_use == "Strange_sim_use"
Toll_Free_Abuse == "Toll_Free_Abuse"
SIM_Swapping == "SIM_Swapping"
Tower_Jumping == "Tower_Jumping"

Detectors ==
    {Call_Spikes, Strange_sim_use, Toll_Free_Abuse, SIM_Swapping, Tower_Jumping}

\* CDR_COLUMN_MAP of each page: an ordered dict, canonical name -> synonyms
CDR_COLUMN_MAP(d) ==
    CASE d = Call_Spikes -> <<
        [std |-> "calling_number", variants |-> <<"calling_number", "caller", "source_number">>],
        [std |-> "called_number", variants |-> <<"called_number", "callee", "dest_number">>],
        [std |-> "start_time", variants |-> <<"start_time", "timestamp", "date_time", "call_time">>],
        [std |-> "call_direction", variants |-> <<"call_direction", "direction", "type">>] >>
      [] d = Strange_sim_use -> <<
        [std |-> "calling_number", variants |-> <<"calling_number", "caller", "source_number", "a_party">>],
        [std |-> "called_number", variants |-> <<"called_number", "callee", "dest_number", "b_party">>],
        [std |-> "start_time", variants |-> <<"start_time", "timestamp", "date_time", "call_time">>],
        [std |-> "call_direction", variants |-> <<"call_direction", "direction", "type", "call_type">>],
        [std |-> "duration", variants |-> <<"duration", "duration_seconds", "billable_duration">>] >>
      [] d = Toll_Free_Abuse -> <<
        [std |-> "calling_number", variants |-> <<"calling_number", "caller", "source_number", "a_party">>],
        [std |-> "called_number", variants |-> <<"called_number", "callee", "dest_number", "b_party">>],
        [std |-> "call_direction", variants |-> <<"call_direction", "direction", "type", "call_type">>],
        [std |-> "start_time", variants |-> <<"start_time", "timestamp", "date_time", "call_time">>] >>
      [] d = SIM_Swapping -> <<
        [std |-> "imsi", variants |-> <<"imsi", "subscriber_id", "sim_id">>],
        [std |-> "imei", variants |-> <<"imei", "device_id", "serial_number">>],
        [std |-> "calling_number", variants |-> <<"calling_number", "caller", "source_number", "a_party">>],
        [std |-> "called_number", variants |-> <<"called_number", "callee", "dest_number", "b_party">>],
        [std |-> "start_time", variants |-> <<"start_time", "timestamp", "date_time", "call_time">>] >>
      [] d = Tower_Jumping -> <<
        [std |-> "imsi", variants |-> <<"imsi", "subscriber_id">>],
        [std |-> "start_time", variants |-> <<"start_time", "timestamp", "date_time", "call_time">>],
        [std |-> "cell_id", variants |-> <<"cell_id", "cellid", "cid">>],
        [std |-> "tower_id", variants |-> <<"tower_id", "towerid", "lac", "location_area_code">>],
        [std |-> "latitude", variants |-> <<"latitude", "lat">>],
        [std |-> "longitude", variants |-> <<"longitude", "lon", "lng">>] >>

\* REQUIRED_COLUMNS of each page
REQUIRED_COLUMNS(d) ==
    CASE d = Call_Spikes -> <<"calling_number", "called_number", "start_time", "call_direction">>
      [] d = Strange_sim_use -> <<"calling_number", "called_number", "call_direction", "start_time">>
      [] d = Toll_Free_Abuse -> <<"calling_number", "called_number", "call_direction", "start_time">>
      [] d = SIM_Swapping -> <<"imsi", "imei", "calling_number", "called_number", "start_time">>
      [] d = Tower_Jumping -> <<"imsi", "start_time", "latitude", "longitude", "cell_id">>

----------------------------------------------------------------------------
(* The values of the page variables before the first run.  The findings    *)
(* and the report of a run are [run, file]; None is the value of no run.   *)

None == [run |-> 0, file |-> 0]

\* the pages that keep their findings and report in st.session_state
SessionPages == {Strange_sim_use, Toll_Free_Abuse, SIM_Swapping, Tower_Jumping}

\* st.session_state after the "Initialize State" lines of run()
NewSession == [uploaded_file |-> 0, results |-> None, pdf |-> None]

\* the record of a run that has not happened
NoRun ==
    [file |-> 0, loaded |-> FALSE, columns |-> << >>, outcome |-> "none",
     reported |-> << >>, validated |-> FALSE, analyzed |-> FALSE,
     shown |-> None, download |-> None]

----------------------------------------------------------------------------
(* Python string methods.                                                  *)

UpperLetters ==
    <<"A","B","C","D","E","F","G","H","I","J","K","L","M",
      "N","O","P","Q","R","S","T","U","V","W","X","Y","Z">>
LowerLetters ==
    <<"a","b","c","d","e","f","g","h","i","j","k","l","m",
      "n","o","p","q","r","s","t","u","v","w","x","y","z">>

\* the image of the one-character string c under the letter table from -> to
MapChar(c, from, to) ==
    IF \E i \in DOMAIN from : from[i] = c
    THEN to[CHOOSE i \in DOMAIN from : from[i] = c]
    ELSE c

\* str.lower()
RECURSIVE lower(_)
lower(s) ==
    IF s = "" THEN ""
    ELSE MapChar(SubSeq(s, 1, 1), UpperLetters, LowerLetters) \o lower(SubSeq(s, 2, Len(s)))

\* str.upper()
RECURSIVE upper(_)
upper(s) ==
    IF s = "" THEN ""
    ELSE MapChar(SubSeq(s, 1, 1), LowerLetters, UpperLetters) \o upper(SubSeq(s, 2, Len(s)))

\* str.replace(ch, "") for a one-character ch
RECURSIVE remove(_, _)
remove(s, ch) ==
    IF s = "" THEN ""
    ELSE (IF SubSeq(s, 1, 1) = ch THEN "" ELSE SubSeq(s, 1, 1)) \o remove(SubSeq(s, 2, Len(s)), ch)

\* str.startswith(prefix)
startswith(s, prefix) ==
    Len(s) >= Len(prefix) /\ SubSeq(s, 1, Len(prefix)) = prefix

----------------------------------------------------------------------------
(* normalize_columns.  A table is [columns, data]: the column labels in    *)
(* order and, position by position, the identity of each column's values.  *)

\* x.lower().replace(" ", "").replace("_", "")
ColKey(x) == remove(remove(lower(x), " "), "_")

Range(seq) == {seq[i] : i \in DOMAIN seq}

\* key = variant.lower().replace(" ", "").replace("_", "") of every synonym
\* of every page's map, computed once
VariantKey ==
    [x \in UNION {Range(e.variants) :
                    e \in UNION {Range(CDR_COLUMN_MAP(d)) : d \in Detectors}} |->
        ColKey(x)]

\* df_cols = {key(col): col for col in df.columns}: a later column with the
\* same key overwrites an earlier one
df_cols(columns) ==
    LET key == [i \in DOMAIN columns |-> ColKey(columns[i])]
    IN  [k \in Range(key) |->
            columns[CHOOSE i \in DOMAIN columns :
                /\ key[i] = k
                /\ \A j \in DOMAIN columns : key[j] = k => j <= i]]

\* FirstMatch with the synonym lists walked from their end: the last
\* matching synonym wins
LastMatch(variants, dc) ==
    LET hits == {v \in DOMAIN variants : VariantKey[variants[v]] \in DOMAIN dc}
    IN  IF hits = {} THEN 0
        ELSE CHOOSE v \in hits : \A w \in hits : v >= w

\* the inner loop with its break: the index of the first variant whose key
\* is a key of df_cols, 0 when there is none
FirstMatch(variants, dc) ==
    LET hits == {v \in DOMAIN variants : VariantKey[variants[v]] \in DOMAIN dc}
    IN  IF hits = {} THEN 0
        ELSE CHOOSE v \in hits : \A w \in hits : v <= w

\* Consulted with the break left out: every matching synonym is acted on
ConsultedAll(variants, dc) ==
    {v \in DOMAIN variants : VariantKey[variants[v]] \in DOMAIN dc}

\* the variants of one canonical field the inner loop acts on: none when
\* none matches, else the first matching one alone (break)
Consulted(variants, dc) ==
    LET first == FirstMatch(variants, dc)
    IN  IF first = 0 THEN {} ELSE {first}

\* col_rename after the outer loop has handled the first n fields of the map
RECURSIVE col_rename(_, _, _)
col_rename(column_map, dc, n) ==
    IF n = 0 THEN << >>
    ELSE LET prev == col_rename(column_map, dc, n - 1)
             e == column_map[n]
             hit == {dc[VariantKey[e.variants[v]]] : v \in Consulted(e.variants, dc)}
         IN  [c \in DOMAIN prev \cup hit |-> IF c \in hit THEN e.std ELSE prev[c]]

\* rename that also writes back the matching key of the labels it does not
\* rename
rename_keyed(table, cr) ==
    [columns |-> [i \in DOMAIN table.columns |->
                    IF table.columns[i] \in DOMAIN cr
                    THEN cr[table.columns[i]]
                    ELSE ColKey(table.columns[i])],
     data |-> table.data]

\* df.rename(columns=col_rename): labels change, nothing else does
rename(table, cr) ==
    [columns |-> [i \in DOMAIN table.columns |->
                    IF table.columns[i] \in DOMAIN cr
                    THEN cr[table.columns[i]]
                    ELSE table.columns[i]],
     data |-> table.data]

normalize_columns(table, column_map) ==
    rename(table, col_rename(column_map, df_cols(table.columns), Len(column_map)))

----------------------------------------------------------------------------
(* The call detectors: parse_cdr's coercion of the values and analyze_logic *)
(* of Call_Spikes and Strange_sim_use.  A row is [calling_number,          *)
(* called_number, call_direction, start_time]; identifiers and directions  *)
(* are strings, NaN is the missing value, a start_time is in minutes and   *)
(* NaT is what pd.to_datetime(errors='coerce') makes of an unparsable one. *)
(* A findings table is the set of its rows: their order is not modelled.   *)

NaN == "NaN"
NaT == -1

\* minutes in an hour, for Series.dt.floor('h')
MinutesPerHour == 60

\* Series.astype(str)
astype_str(x) == IF x = NaN THEN "nan" ELSE x

\* .astype(str).str.replace(r'\.0$', '', regex=True)
clean_id(x) ==
    LET s == astype_str(x)
    IN  IF Len(s) >= 2 /\ SubSeq(s, Len(s) - 1, Len(s)) = ".0"
        THEN SubSeq(s, 1, Len(s) - 2)
        ELSE s

\* the value coercions of parse_cdr, row by row: Call_Spikes coerces the
\* start_time alone, Strange_sim_use also cleans the two numbers
parse_rows(d, table) ==
    IF d = Call_Spikes THEN table
    ELSE [i \in DOMAIN table |->
            [table[i] EXCEPT !.calling_number = clean_id(@),
                             !.called_number = clean_id(@)]]

\* the direction codes a page's analyze_logic takes for outgoing
OutgoingCodes(d) ==
    IF d = Call_Spikes THEN {"MO", "OUTGOING", "CALL OUT"}
    ELSE {"MO", "OUTGOING", "1", "CALL OUT"}

\* the outgoing mask with the test of the direction left out
any_direction(d, direction) == TRUE

\* df['call_direction'].astype(str).str.upper().isin([...])
is_outgoing(d, direction) == upper(astype_str(direction)) \in OutgoingCodes(d)

\* the international mask of a page, on a row of outgoing_df
is_international(d, r) ==
    IF d = Call_Spikes
    THEN ~startswith(astype_str(r.called_number), "91")
    ELSE ~startswith(r.called_number, "91") /\ Len(r.called_number) > 6

\* the comparison with a threshold, with >= in the place of >
at_least(count, threshold) == count >= threshold

\* the comparison with a threshold turned around: <= in the place of >
at_most(count, threshold) == count <= threshold

\* counts[counts[name] > threshold]
exceeds(count, threshold) == count > threshold

\* Series.dt.floor('h'); NaT stays NaT
floor_h(t) == IF t = NaT THEN NaT ELSE (t \div MinutesPerHour) * MinutesPerHour

\* groupby('calling_number').size().reset_index(name=...); groupby leaves
\* out the rows whose key is missing
international_counts(table) ==
    {[calling_number |-> c,
      international_call_count |-> Len(SelectSeq(table, LAMBDA r : r.calling_number = c))] :
        c \in {r.calling_number : r \in Range(table)} \ {NaN}}

\* hourly_counts with the hour left out of the group key
caller_counts(table) ==
    {[calling_number |-> k[1], hour_window |-> k[2],
      calls_in_hour |-> Len(SelectSeq(table, LAMBDA r : r.calling_number = k[1]))] :
        k \in {<<r.calling_number, floor_h(r.start_time)>> :
                r \in {q \in Range(table) : q.calling_number # NaN /\ q.start_time # NaT}}}

\* groupby(['calling_number', 'hour_window']).size().reset_index(name=...)
hourly_counts(table) ==
    {[calling_number |-> k[1], hour_window |-> k[2],
      calls_in_hour |-> Len(SelectSeq(table,
            LAMBDA r : r.calling_number = k[1] /\ floor_h(r.start_time) = k[2]))] :
        k \in {<<r.calling_number, floor_h(r.start_time)>> :
                r \in {q \in Range(table) : q.calling_number # NaN /\ q.start_time # NaT}}}

\* the value of the analysis variables outside an analysis
NoConfig == [intl |-> 0, spike |-> 0]
NoTable == [columns |-> << >>, data |-> << >>]
NoOutput == [outgoing |-> << >>, intl |-> {}, spikes |-> {}]

\* analyze_logic of Call_Spikes
analyze_call_spikes(table, intl_threshold, spike_threshold) ==
    LET outgoing_df == SelectSeq(table, LAMBDA r : is_outgoing(Call_Spikes, r.call_direction))
        intl_calls == SelectSeq(outgoing_df, LAMBDA r : is_international(Call_Spikes, r))
    IN  IF outgoing_df = << >> THEN NoOutput
        ELSE [outgoing |-> outgoing_df,
              intl |-> {g \in international_counts(intl_calls) :
                            exceeds(g.international_call_count, intl_threshold)},
              spikes |-> {g \in hourly_counts(outgoing_df) :
                            exceeds(g.calls_in_hour, spike_threshold)}]

\* analyze_logic of Strange_sim_use
analyze_strange_sim(table, threshold) ==
    LET outgoing_df == SelectSeq(table, LAMBDA r : is_outgoing(Strange_sim_use, r.call_direction))
        intl_calls == SelectSeq(outgoing_df, LAMBDA r : is_international(Strange_sim_use, r))
    IN  IF outgoing_df = << >> THEN NoOutput
        ELSE [outgoing |-> outgoing_df,
              intl |-> {g \in international_counts(intl_calls) :
                            exceeds(g.international_call_count, threshold)},
              spikes |-> {}]

\* the tables of at most MaxRows rows over a set of rows
TablesOver(universe) == UNION {[1..n -> universe] : n \in 0..MaxRows}

Row(c, n, d, t) ==
    [calling_number |-> c, called_number |-> n, call_direction |-> d, start_time |-> t]

\* rows for the international scoring: two callers; a domestic, a long and
\* a short foreign number; and the direction codes in several spellings
IntlRows ==
    {Row(c, n, "mo", 60) : c \in {"9876500001", "9876500002"},
                           n \in {"919812300000", "442070000000", "44207"}}
    \cup {Row("9876500001", "442070000000", d, 60) : d \in {"MT", "1", "Outgoing", "Call Out"}}

\* rows for the hourly scoring: two callers, two start times in one hour,
\* one in the hour before, an unparsable one, and an incoming call
SpikeRows ==
    {Row(c, "442070000000", "mo", t) : c \in {"9876500001", "9876500002"},
                                       t \in {59, 60, 119, NaT}}
    \cup {Row("9876500001", "442070000000", "MT", 60)}

InitAnalysis ==
    /\ df = [columns |-> << >>, data |-> << >>]
    /\ ndf = df
    /\ ndf2 = df
    /\ npc = "input"
    /\ runs = 0
    /\ session = NewSession
    /\ last = NoRun
    /\ out = NoOutput
    /\ apc = "input"
    /\ tbl = NoTable
    /\ out2 = NoOutput

InitIntl ==
    /\ InitAnalysis
    /\ det \in {Call_Spikes, Strange_sim_use}
    /\ rows \in TablesOver(IntlRows)
    /\ cfg \in [intl : 1..MaxThreshold, spike : {1}]

InitSpike ==
    /\ InitAnalysis
    /\ det = Call_Spikes
    /\ rows \in TablesOver(SpikeRows)
    /\ cfg \in [intl : {1}, spike : 1..MaxThreshold]

AnalyzeCallSpikes ==
    /\ apc = "input"
    /\ det = Call_Spikes
    /\ out' = analyze_call_spikes(parse_rows(det, rows), cfg.intl, cfg.spike)
    /\ apc' = "done"
    /\ UNCHANGED <<det, df, ndf, ndf2, npc, runs, session, last, rows, cfg, tbl, out2>>

AnalyzeStrangeSim ==
    /\ apc = "input"
    /\ det = Strange_sim_use
    /\ out' = analyze_strange_sim(parse_rows(det, rows), cfg.intl)
    /\ apc' = "done"
    /\ UNCHANGED <<det, df, ndf, ndf2, npc, runs, session, last, rows, cfg, tbl, out2>>

NextIntl == AnalyzeCallSpikes \/ AnalyzeStrangeSim

SpecIntl == InitIntl /\ [][NextIntl]_vars

NextSpike == AnalyzeCallSpikes

SpecSpike == InitSpike /\ [][NextSpike]_vars

----------------------------------------------------------------------------
(* The Toll-Free detector: analyze_logic of Toll_Free_Abuse.  The prefix   *)
(* list is the text the user typed; a call_date is a day number.           *)

\* minutes in a day, for Series.dt.date
MinutesPerDay == 1440

\* the number of rows value_counts().head(10) keeps
TopTargets == 10

\* the characters str.strip() takes away
Whitespace == {" ", "\t"}

\* the position of the first ch in s at or after position i, 0 if none
RECURSIVE find(_, _, _)
find(s, ch, i) ==
    IF i > Len(s) THEN 0
    ELSE IF SubSeq(s, i, i) = ch THEN i
    ELSE find(s, ch, i + 1)

\* str.split(sep) for a separator of one character
RECURSIVE split(_, _)
split(s, sep) ==
    LET i == find(s, sep, 1)
    IN  IF i = 0 THEN <<s>>
        ELSE <<SubSeq(s, 1, i - 1)>> \o split(SubSeq(s, i + 1, Len(s)), sep)

\* str.lstrip() and str.rstrip()
RECURSIVE lstrip(_)
lstrip(s) ==
    IF s # "" /\ SubSeq(s, 1, 1) \in Whitespace
    THEN lstrip(SubSeq(s, 2, Len(s)))
    ELSE s

RECURSIVE rstrip(_)
rstrip(s) ==
    IF s # "" /\ SubSeq(s, Len(s), Len(s)) \in Whitespace
    THEN rstrip(SubSeq(s, 1, Len(s) - 1))
    ELSE s

\* str.strip()
strip(s) == rstrip(lstrip(s))

\* the prefixes with the entries that are empty after strip() kept
parse_prefixes_unfiltered(prefixes_str) ==
    LET parts == split(prefixes_str, ",")
    IN  [i \in DOMAIN parts |-> strip(parts[i])]

\* tuple(p.strip() for p in prefixes_str.split(',') if p.strip())
parse_prefixes(prefixes_str) ==
    LET parts == split(prefixes_str, ",")
        stripped == [i \in DOMAIN parts |-> strip(parts[i])]
    IN  SelectSeq(stripped, LAMBDA p : p # "")

\* str.startswith(prefixes) with a substring test in the place of the
\* prefix test
RECURSIVE contains(_, _)
contains(s, sub) ==
    IF Len(s) < Len(sub) THEN FALSE
    ELSE startswith(s, sub) \/ contains(SubSeq(s, 2, Len(s)), sub)

contains_any(s, prefixes) ==
    \E i \in DOMAIN prefixes : contains(s, prefixes[i])

\* str.startswith(prefixes) for a tuple of prefixes
startswith_any(s, prefixes) ==
    \E i \in DOMAIN prefixes : startswith(s, prefixes[i])

\* Series.dt.date; NaT stays NaT
date_of(t) == IF t = NaT THEN NaT ELSE t \div MinutesPerDay

\* daily_counts with the date left out of the group key
caller_totals(calls) ==
    {[calling_number |-> k[1], call_date |-> k[2],
      call_count |-> Len(SelectSeq(calls, LAMBDA r : r.calling_number = k[1]))] :
        k \in {<<r.calling_number, date_of(r.start_time)>> :
                r \in {q \in Range(calls) : q.calling_number # NaN /\ q.start_time # NaT}}}

\* groupby(['calling_number', 'call_date']).size().reset_index(name=...)
daily_counts(calls) ==
    {[calling_number |-> k[1], call_date |-> k[2],
      call_count |-> Len(SelectSeq(calls,
            LAMBDA r : r.calling_number = k[1] /\ date_of(r.start_time) = k[2]))] :
        k \in {<<r.calling_number, date_of(r.start_time)>> :
                r \in {q \in Range(calls) : q.calling_number # NaN /\ q.start_time # NaT}}}

\* Series.value_counts() as a set of rows
value_counts(calls) ==
    {[called_number |-> n,
      total_calls |-> Len(SelectSeq(calls, LAMBDA r : r.called_number = n))] :
        n \in {r.called_number : r \in Range(calls)}}

\* the subsets of S with k elements
RECURSIVE KSubsets(_, _)
KSubsets(S, k) ==
    IF k = 0 THEN {{}}
    ELSE UNION {{T \cup {x} : T \in KSubsets(S \ {x}, k - 1)} : x \in S}

\* head(10) without the sort by count that value_counts() does first
head_unsorted(counts) ==
    LET k == IF Cardinality(counts) > TopTargets
             THEN Cardinality(counts) - TopTargets ELSE 0
    IN  {counts \ dropped : dropped \in KSubsets(counts, k)}

\* value_counts().head(10): the rows are sorted by count, largest first,
\* and the first ten are kept; which of several rows with the same count
\* comes first is left to the sort, so the result is one of a set
head(counts) ==
    LET k == IF Cardinality(counts) > TopTargets
             THEN Cardinality(counts) - TopTargets ELSE 0
    IN  {counts \ dropped : dropped \in
            {E \in KSubsets(counts, k) :
                \A e \in E : \A c \in counts \ E : e.total_calls <= c.total_calls}}

NoTollOutput == [calls |-> << >>, abusive |-> {}, top |-> {}]

\* analyze_logic of Toll_Free_Abuse: the set of the results it can return
analyze_toll_free(table, abuse_threshold, prefixes_str) ==
    LET prefixes == parse_prefixes(prefixes_str)
        tollfree_calls ==
            SelectSeq(table, LAMBDA r : /\ is_outgoing(Toll_Free_Abuse, r.call_direction)
                                        /\ startswith_any(r.called_number, prefixes))
    IN  IF tollfree_calls = << >> THEN {NoTollOutput}
        ELSE {[calls |-> tollfree_calls,
               abusive |-> {g \in daily_counts(tollfree_calls) :
                                exceeds(g.call_count, abuse_threshold)},
               top |-> top_targets] :
                    top_targets \in head(value_counts(tollfree_calls))}

AnalyzeTollFree ==
    /\ apc = "input"
    /\ det = Toll_Free_Abuse
    /\ out' \in analyze_toll_free(parse_rows(det, rows), cfg.threshold, cfg.prefixes)
    /\ apc' = "done"
    /\ UNCHANGED <<det, df, ndf, ndf2, npc, runs, session, last, rows, cfg, tbl, out2>>

\* the toll-free destinations of the drawn tables
TollFreeNumbers ==
    {"18001110001", "18001110002", "18001110003", "18001110004",
     "18001110005", "18001110006", "18001110007", "18001110008",
     "18001110009", "18001110010", "18001110011"}

\* rows for the prefix match: one caller at one time; numbers that begin
\* with a prefix, contain one further in, or are one; outgoing and incoming
PrefixRows ==
    {Row("9876500001", n, d, 60) :
        n \in {"18009991111", "918001234567", "8005550000", "1800"},
        d \in {"mo", "MT"}}

\* the prefix lists the user types for the prefix match: also with a comma
\* at the end, with two commas in a row, and with nothing but blanks
PrefixLists == {"1800", "1800, 18", " 800 ,", "1800,", "1800,,18", "  ", ","}

\* rows for the daily scoring: two callers; the last minute of a day, the
\* first and a later minute of the next day, an unparsable time; and a call
\* to a number that is not toll-free
DailyRows ==
    {Row(c, "18009991111", "mo", t) : c \in {"9876500001", "9876500002"},
                                      t \in {1439, 1440, 1500, NaT}}
    \cup {Row("9876500001", "919812300000", "mo", 1440)}

\* the table in which each destination of present is called once and each
\* of twice a second time, by one caller on one day
RECURSIVE CallsTo(_)
CallsTo(numbers) ==
    IF numbers = {} THEN << >>
    ELSE LET n == CHOOSE x \in numbers : TRUE
         IN  <<Row("9876500001", n, "mo", 60)>> \o CallsTo(numbers \ {n})

InitPrefix ==
    /\ InitAnalysis
    /\ det = Toll_Free_Abuse
    /\ rows \in TablesOver(PrefixRows)
    /\ cfg \in [threshold : 1..MaxThreshold, prefixes : PrefixLists]

InitDaily ==
    /\ InitAnalysis
    /\ det = Toll_Free_Abuse
    /\ rows \in TablesOver(DailyRows)
    /\ cfg \in [threshold : 1..MaxThreshold, prefixes : {"1800, 1860"}]

InitTop ==
    /\ InitAnalysis
    /\ det = Toll_Free_Abuse
    /\ \E present \in SUBSET TollFreeNumbers : \E twice \in SUBSET present :
        /\ Cardinality(TollFreeNumbers \ present) <= 1
        /\ Cardinality(twice) <= MaxRepeats
        /\ rows = CallsTo(present) \o CallsTo(twice)
    /\ cfg \in [threshold : 1..MaxThreshold, prefixes : {"1800, 1860"}]

NextToll == AnalyzeTollFree

SpecPrefix == InitPrefix /\ [][NextToll]_vars

SpecDaily == InitDaily /\ [][NextToll]_vars

SpecTop == InitTop /\ [][NextToll]_vars

----------------------------------------------------------------------------
(* The SIM-Swap detector: parse_cdr's coercion of the values and           *)
(* analyze_logic of SIM_Swapping.  A row is [imsi, imei, calling_number,   *)
(* called_number, start_time].  A similarity is the fraction               *)
(* [num, den] that the code computes as the float num / den, and a         *)
(* threshold is the fraction that the slider's decimal stands for; small   *)
(* fractions compare as floats the way they compare as fractions.          *)

\* the characters of the identifiers, in the order of their code points
Alphabet == ".0123456789abcdefghijklmnopqrstuvwxyz"

\* ord(ch)
ord(ch) == find(Alphabet, ch, 1)

\* a < b for two strings, as the sort of the group keys compares them
RECURSIVE str_lt(_, _)
str_lt(a, b) ==
    IF a = "" THEN b # ""
    ELSE IF b = "" THEN FALSE
    ELSE LET x == ord(SubSeq(a, 1, 1))
             y == ord(SubSeq(b, 1, 1))
         IN  IF x # y THEN x < y
             ELSE str_lt(SubSeq(a, 2, Len(a)), SubSeq(b, 2, Len(b)))

\* DataFrame.isna() on the value of a column: a start_time is a time or
\* NaT, every other value is NaN when it is missing
isna(column, value) ==
    IF column = "start_time" THEN value = NaT ELSE value = NaN

\* the value coercions of parse_cdr of SIM_Swapping: the three identifiers
\* become cleaned strings (a missing one the string "nan"), then
\* dropna(subset=REQUIRED_COLUMNS) drops the rows in which a required
\* field is still missing
parse_sim(table) ==
    LET cleaned == [i \in DOMAIN table |->
                        [table[i] EXCEPT !.imsi = clean_id(@),
                                         !.imei = clean_id(@),
                                         !.called_number = clean_id(@)]]
        required == REQUIRED_COLUMNS(SIM_Swapping)
    IN  SelectSeq(cleaned, LAMBDA r : \A i \in DOMAIN required :
                                        ~isna(required[i], r[required[i]]))

\* the intersection over the first set in the place of the union
overlap_of_first(set_a, set_b) ==
    IF set_a = {} \/ set_b = {} THEN [num |-> 0, den |-> 1]
    ELSE [num |-> Cardinality(set_a \cap set_b), den |-> Cardinality(set_a)]

\* calculate_jaccard_similarity: the quotient intersection / union as the
\* pair of its two integers, 0.0 as 0 / 1
calculate_jaccard_similarity(set_a, set_b) ==
    IF set_a = {} \/ set_b = {} THEN [num |-> 0, den |-> 1]
    ELSE [num |-> Cardinality(set_a \cap set_b),
          den |-> Cardinality(set_a \cup set_b)]

\* sim_score >= similarity_threshold, with > in the place of >=
strictly_above(x, y) == x.num * y.den > y.num * x.den

\* sim_score >= similarity_threshold
not_below(x, y) == x.num * y.den >= y.num * x.den

\* round(sim_score, 2), in hundredths; a tie goes to the even hundredth
round2(x) ==
    LET q == (100 * x.num) \div x.den
        rem == (100 * x.num) % x.den
    IN  IF 2 * rem > x.den THEN q + 1
        ELSE IF 2 * rem < x.den THEN q
        ELSE IF q % 2 = 0 THEN q ELSE q + 1

\* the options of the "Pattern Grouping Window" box, in minutes
WindowMinutes(time_window) ==
    CASE time_window = "15min" -> 15
      [] time_window = "30min" -> 30
      [] time_window = "1h" -> 60
      [] time_window = "2h" -> 120

\* Series.dt.floor(time_window) with every row put in one bucket
one_bucket(t, time_window) == 0

\* Series.dt.floor(time_window)
floor_to(t, time_window) ==
    (t \div WindowMinutes(time_window)) * WindowMinutes(time_window)

\* groupby('imei')['imsi'].nunique().reset_index(name='unique_imsis')
imei_counts(table) ==
    {[imei |-> e,
      unique_imsis |-> Cardinality({r.imsi : r \in {q \in Range(table) : q.imei = e}})] :
        e \in {r.imei : r \in Range(table)}}

\* groupby(['imsi', 'time_bucket'])['called_number'].apply(set)
signatures(table, time_window) ==
    {[imsi |-> k[1], time_bucket |-> k[2],
      called_set |-> {r.called_number :
                        r \in {q \in Range(table) :
                                /\ q.imsi = k[1]
                                /\ floor_to(q.start_time, time_window) = k[2]}}] :
        k \in {<<r.imsi, floor_to(r.start_time, time_window)>> : r \in Range(table)}}

\* the loop over the buckets and over the pairs i < j of a bucket's rows,
\* which groupby has sorted by imsi
suspicious_patterns(table, time_window, similarity_threshold) ==
    LET sigs == signatures(table, time_window)
    IN  {[time_window |-> a.time_bucket,
          imsi_1 |-> a.imsi,
          imsi_2 |-> b.imsi,
          similarity_score |-> round2(calculate_jaccard_similarity(a.called_set, b.called_set)),
          common_contacts |-> a.called_set \cap b.called_set] :
            <<a, b>> \in {p \in sigs \X sigs :
                /\ p[1].time_bucket = p[2].time_bucket
                /\ str_lt(p[1].imsi, p[2].imsi)
                /\ not_below(calculate_jaccard_similarity(p[1].called_set, p[2].called_set),
                             similarity_threshold)}}

\* analyze_logic of SIM_Swapping
analyze_sim_swap(table, time_window, similarity_threshold) ==
    [swaps |-> {g \in imei_counts(table) : g.unique_imsis > 1},
     patterns |-> suspicious_patterns(table, time_window, similarity_threshold)]

AnalyzeSimSwap ==
    /\ apc = "input"
    /\ det = SIM_Swapping
    /\ out' = analyze_sim_swap(parse_sim(rows), cfg.window, cfg.threshold)
    /\ apc' = "done"
    /\ UNCHANGED <<det, df, ndf, ndf2, npc, runs, session, last, rows, cfg, tbl, out2>>

SimRow(i, e, n, t) ==
    [imsi |-> i, imei |-> e, calling_number |-> "9876500001",
     called_number |-> n, start_time |-> t]

\* rows for the device reuse: two SIMs and a missing one, one of them also
\* as the float a spreadsheet makes of it; two devices; a time and an
\* unparsable one
ReuseRows ==
    {SimRow(i, e, "9876500002", t) :
        i \in {"404450000000001", "404450000000002", "404450000000001.0", NaN},
        e \in {"356938035643809", "356938035643810"},
        t \in {10, NaT}}

\* the decimals of the similarity slider that the tables are scored with
Thresholds == {[num |-> 5, den |-> 10], [num |-> 7, den |-> 10], [num |-> 10, den |-> 10]}

InitReuse ==
    /\ InitAnalysis
    /\ det = SIM_Swapping
    /\ rows \in TablesOver(ReuseRows)
    /\ cfg \in [window : {"30min"}, threshold : {[num |-> 6, den |-> 10]}]

NextSim == AnalyzeSimSwap

SpecReuse == InitReuse /\ [][NextSim]_vars

\* the sets of numbers a SIM calls in one slot of the drawn tables
Signatures ==
    {{}, {"9876500002"}, {"9876500002", "9876500003"},
     {"9876500002", "9876500003", "9876500004"}}

\* the SIMs of the drawn tables, each in its device, and the two slots in
\* which they call: ten minutes and forty minutes after midnight, which one
\* bucket of an hour holds and two buckets of 30 minutes
PatternSlots ==
    <<[imsi |-> "404450000000001", imei |-> "356938035643809", start_time |-> 10],
      [imsi |-> "404450000000001", imei |-> "356938035643809", start_time |-> 40],
      [imsi |-> "404450000000002", imei |-> "356938035643810", start_time |-> 10],
      [imsi |-> "404450000000002", imei |-> "356938035643810", start_time |-> 40],
      [imsi |-> "404450000000003", imei |-> "356938035643811", start_time |-> 10],
      [imsi |-> "404450000000003", imei |-> "356938035643811", start_time |-> 40]>>

\* the rows in which the SIM of a slot calls each number of a set once
RECURSIVE CallsIn(_, _)
CallsIn(slot, numbers) ==
    IF numbers = {} THEN << >>
    ELSE LET n == CHOOSE x \in numbers : TRUE
         IN  <<SimRow(slot.imsi, slot.imei, n, slot.start_time)>>
                \o CallsIn(slot, numbers \ {n})

\* the table of the first n slots, in which the SIM of slot k calls sets[k]
RECURSIVE PatternTable(_, _)
PatternTable(sets, n) ==
    IF n = 0 THEN << >>
    ELSE PatternTable(sets, n - 1) \o CallsIn(PatternSlots[n], sets[n])

InitPattern ==
    /\ InitAnalysis
    /\ det = SIM_Swapping
    /\ \E sets \in [DOMAIN PatternSlots -> Signatures] :
            rows = PatternTable(sets, Len(PatternSlots))
    /\ cfg \in [window : {"30min", "1h"}, threshold : Thresholds]

SpecPattern == InitPattern /\ [][NextSim]_vars

\* calculate_jaccard_similarity on its own, on every pair of sets of
\* called numbers, in both orders of its arguments
ContactNames == <<"9876500002", "9876500003", "9876500004", "9876500005", "9876500006">>

ContactSets == SUBSET {ContactNames[i] : i \in 1..MaxContacts}

InitJaccard ==
    /\ InitAnalysis
    /\ det = SIM_Swapping
    /\ rows = << >>
    /\ cfg \in [set_a : ContactSets, set_b : ContactSets]

Jaccard ==
    /\ apc = "input"
    /\ out' = calculate_jaccard_similarity(cfg.set_a, cfg.set_b)
    /\ out2' = calculate_jaccard_similarity(cfg.set_b, cfg.set_a)
    /\ apc' = "done"
    /\ UNCHANGED <<det, df, ndf, ndf2, npc, runs, session, last, rows, cfg, tbl>>

NextJaccard == Jaccard

SpecJaccard == InitJaccard /\ [][NextJaccard]_vars

----------------------------------------------------------------------------
(* The Tower-Jump detector: parse_cdr's dropna and analyze_logic of        *)
(* Tower_Jumping.  A row is [imsi, start_time, latitude, longitude,        *)
(* cell_id] with the values parse_cdr's coercions have made: a start_time  *)
(* in minutes or NaT, a latitude and a longitude in hundredths of a degree *)
(* or NaNumber.  A distance is in metres.  The findings are a sequence: a  *)
(* row of the sorted table per finding.                                    *)

\* what pd.to_numeric(errors='coerce') makes of an unparsable coordinate
NaNumber == 99999

\* R = 6371, the radius of the Earth in km
EarthRadiusKm == 6371

\* DataFrame.isna() on the value of a column of the Tower_Jumping table
isna_tower(column, value) ==
    IF column \in {"latitude", "longitude"} THEN value = NaNumber
    ELSE isna(column, value)

\* df.dropna(subset=REQUIRED_COLUMNS) at the end of parse_cdr
parse_tower(table) ==
    LET required == REQUIRED_COLUMNS(Tower_Jumping)
    IN  SelectSeq(table, LAMBDA r : \A i \in DOMAIN required :
                                        ~isna_tower(required[i], r[required[i]]))

\* a comes no later than b in the order of by=['imsi', 'start_time']
key_le(a, b) ==
    \/ str_lt(a.imsi, b.imsi)
    \/ a.imsi = b.imsi /\ a.start_time <= b.start_time

\* r put into a sorted table behind the rows that come no later than r
RECURSIVE insert(_, _)
insert(sorted, r) ==
    IF sorted = << >> THEN <<r>>
    ELSE IF key_le(Head(sorted), r) THEN <<Head(sorted)>> \o insert(Tail(sorted), r)
    ELSE <<r>> \o sorted

\* the first n rows of a table, sorted
RECURSIVE sort_first(_, _)
sort_first(table, n) ==
    IF n = 0 THEN << >> ELSE insert(sort_first(table, n - 1), table[n])

\* sort_values left out: the rows stay as they were supplied
unsorted(table) == table

\* df.sort_values(by=['imsi', 'start_time']).reset_index(drop=True); rows
\* with equal keys keep the order in which they were supplied
sort_values(table) == sort_first(table, Len(table))

\* shift(1) over the whole table in the place of the shift within a group
prev_row(table, k) == k - 1

\* groupby('imsi')[...].shift(1): the index of the row before row k among
\* the rows with the imsi of row k, 0 if there is none
prev_in_group(table, k) ==
    LET earlier == {j \in 1..(k - 1) : table[j].imsi = table[k].imsi}
    IN  IF earlier = {} THEN 0 ELSE CHOOSE j \in earlier : \A i \in earlier : i <= j

\* half a turn, in hundredths of a degree
HalfTurn == 18000

\* the length in metres of an arc of d hundredths of a degree on a great
\* circle: R * radians(d / 100), with 355/113 for pi; the quotient
\* (d * R * 355) \div (113 * 18), taken in two steps to stay in 32 bits
arc(d) ==
    LET n == d * EarthRadiusKm
    IN  (n \div (113 * 18)) * 355 + ((n % (113 * 18)) * 355) \div (113 * 18)

\* the angle c = 2 * arctan2(sqrt(a), sqrt(1 - a)) for a = sin(d/2)**2, in
\* hundredths of a degree: the square loses the sign of d, and past half a
\* turn the angle is the rest of the turn
angle(d) ==
    LET size == IF d >= 0 THEN d ELSE 0 - d
    IN  IF size <= HalfTurn THEN size ELSE 2 * HalfTurn - size

\* haversine_vectorized with the difference of the latitudes taken with
\* its sign
haversine_signed(lat1, lon1, lat2, lon2) ==
    CASE lon1 = lon2 -> arc(lat2 - lat1)
      [] lon1 # lon2 /\ lat1 = 0 /\ lat2 = 0 -> arc(lon2 - lon1)

\* haversine_vectorized, on the towers of the tables: two points on one
\* meridian have d_lambda = 0, so a = sin(d_phi/2)**2; two points on the
\* equator have a = sin(d_lambda/2)**2
haversine_vectorized(lat1, lon1, lat2, lon2) ==
    CASE lon1 = lon2 -> arc(angle(lat2 - lat1))
      [] lon1 # lon2 /\ lat1 = 0 /\ lat2 = 0 -> arc(angle(lon2 - lon1))

\* (time_diff_min <= max_time_min) & (time_diff_min >= 0) with < in the
\* place of <=
time_before(time_diff_min, max_time_min) ==
    time_diff_min < max_time_min /\ time_diff_min >= 0

\* (time_diff_min <= max_time_min) & (time_diff_min >= 0)
time_within(time_diff_min, max_time_min) ==
    time_diff_min <= max_time_min /\ time_diff_min >= 0

\* analyze_logic of Tower_Jumping; a row without a row before it has NaN
\* for its distance and its time gap, and no comparison with NaN is true
analyze_tower(table, max_dist_km, max_time_min) ==
    LET sorted == sort_values(table)
        prev == [k \in DOMAIN sorted |-> prev_in_group(sorted, k)]
        shifted == [k \in DOMAIN sorted |->
            IF prev[k] = 0
            THEN [row |-> sorted[k], has_prev |-> FALSE,
                  prev_cell |-> "", dist_km |-> 0, time_diff_min |-> 0]
            ELSE [row |-> sorted[k], has_prev |-> TRUE,
                  prev_cell |-> sorted[prev[k]].cell_id,
                  dist_km |-> haversine_vectorized(
                                sorted[prev[k]].latitude, sorted[prev[k]].longitude,
                                sorted[k].latitude, sorted[k].longitude),
                  time_diff_min |-> sorted[k].start_time - sorted[prev[k]].start_time]]
        anomalies == SelectSeq(shifted, LAMBDA s :
                        /\ s.has_prev
                        /\ s.dist_km >= max_dist_km * 1000
                        /\ time_within(s.time_diff_min, max_time_min))
    IN  [k \in DOMAIN anomalies |->
            [imsi |-> anomalies[k].row.imsi,
             start_time |-> anomalies[k].row.start_time,
             from_cell_id |-> anomalies[k].prev_cell,
             to_cell_id |-> anomalies[k].row.cell_id,
             jump_distance_km |-> anomalies[k].dist_km,
             time_gap_minutes |-> anomalies[k].time_diff_min]]

AnalyzeTower ==
    /\ apc = "input"
    /\ det = Tower_Jumping
    /\ out' = [findings |-> analyze_tower(parse_tower(rows), cfg.dist, cfg.time)]
    /\ apc' = "done"
    /\ UNCHANGED <<det, df, ndf, ndf2, npc, runs, session, last, rows, cfg, tbl, out2>>

\* the towers of the drawn tables, on one meridian: T2 is 5.6 km north of
\* T1, T3 11.1 km and T4 100.1 km; T5 has a latitude that does not parse
Towers ==
    <<[cell_id |-> "T1", latitude |-> 2800, longitude |-> 7700],
      [cell_id |-> "T2", latitude |-> 2805, longitude |-> 7700],
      [cell_id |-> "T3", latitude |-> 2810, longitude |-> 7700],
      [cell_id |-> "T4", latitude |-> 2890, longitude |-> 7700],
      [cell_id |-> "T5", latitude |-> NaNumber, longitude |-> 7700]>>

\* the records a drawn table can hold: a SIM, a start time, and the towers
\* at which the record can be (0: the record is not in the table).  One SIM
\* has records 0, 1, 5 and 10 minutes apart, two of them at the same
\* minute, and one with an unparsable time; the other SIM has one record
TowerSlots ==
    <<[imsi |-> "404450000000001", start_time |-> 0, at |-> 0..4],
      [imsi |-> "404450000000001", start_time |-> 1, at |-> 0..4],
      [imsi |-> "404450000000001", start_time |-> 1, at |-> 0..4],
      [imsi |-> "404450000000001", start_time |-> 6, at |-> 0..4],
      [imsi |-> "404450000000001", start_time |-> 11, at |-> {0, 1, 4}],
      [imsi |-> "404450000000002", start_time |-> 1, at |-> {0, 4, 5}],
      [imsi |-> "404450000000001", start_time |-> NaT, at |-> {0, 4}]>>

TowerRow(slot, tower) ==
    [imsi |-> slot.imsi, start_time |-> slot.start_time,
     latitude |-> tower.latitude, longitude |-> tower.longitude,
     cell_id |-> tower.cell_id]

\* the table of the first n slots, the record of slot k at tower at[k]
RECURSIVE TowerTable(_, _)
TowerTable(at, n) ==
    IF n = 0 THEN << >>
    ELSE TowerTable(at, n - 1) \o
            (IF at[n] = 0 THEN << >> ELSE <<TowerRow(TowerSlots[n], Towers[at[n]])>>)

\* a table with its rows in the opposite order
Reverse(table) == [k \in DOMAIN table |-> table[Len(table) + 1 - k]]

InitTower ==
    /\ InitAnalysis
    /\ det = Tower_Jumping
    /\ \E at \in [DOMAIN TowerSlots -> 0..Len(Towers)] :
        /\ \A k \in DOMAIN TowerSlots : at[k] \in TowerSlots[k].at
        /\ rows \in {TowerTable(at, Len(TowerSlots)),
                     Reverse(TowerTable(at, Len(TowerSlots)))}
    /\ cfg = [dist |-> 10, time |-> 5]

NextTower == AnalyzeTower

SpecTower == InitTower /\ [][NextTower]_vars

\* haversine_vectorized on its own, on every pair of points of which it
\* is modelled: the points of one meridian and the points of the equator,
\* in both orders of the pair
Points ==
    {[latitude |-> lat, longitude |-> 7700] :
        lat \in {-9000, -2800, 0, 2800, 2805, 2890, 9000}}
    \cup {[latitude |-> 0, longitude |-> lon] : lon \in {-17000, 0, 7700, 17000}}

InitHaversine ==
    /\ InitAnalysis
    /\ det = Tower_Jumping
    /\ rows = << >>
    /\ cfg \in {c \in [a : Points, b : Points] :
                    \/ c.a.longitude = c.b.longitude
                    \/ c.a.latitude = 0 /\ c.b.latitude = 0}

Haversine ==
    /\ apc = "input"
    /\ out' = haversine_vectorized(cfg.a.latitude, cfg.a.longitude,
                                   cfg.b.latitude, cfg.b.longitude)
    /\ out2' = haversine_vectorized(cfg.b.latitude, cfg.b.longitude,
                                    cfg.a.latitude, cfg.a.longitude)
    /\ apc' = "done"
    /\ UNCHANGED <<det, df, ndf, ndf2, npc, runs, session, last, rows, cfg, tbl>>

NextHaversine == Haversine

SpecHaversine == InitHaversine /\ [][NextHaversine]_vars

----------------------------------------------------------------------------
(* analyze_logic and its argument.  The specifications above follow the    *)
(* findings of one call; here the table that the caller hands over is      *)
(* followed too, through a first call and a second one on the same table.  *)

\* the table run() hands to analyze_logic: the required columns of the
\* page, with the rows as parse_cdr of the page has left them
parsed_table(d, table) ==
    [columns |-> REQUIRED_COLUMNS(d),
     data |-> CASE d = SIM_Swapping -> parse_sim(table)
                [] d = Tower_Jumping -> parse_tower(table)
                [] OTHER -> parse_rows(d, table)]

\* df[name] = values: the column is added when the table has none of that
\* name, and every row gets its value
assign_column(table, name, values) ==
    [columns |-> IF \E i \in DOMAIN table.columns : table.columns[i] = name
                 THEN table.columns ELSE Append(table.columns, name),
     data |-> [i \in DOMAIN table.data |-> (name :> values[i]) @@ table.data[i]]]

\* the caller's table after analyze_logic of a page has run on it:
\* Call_Spikes, Strange_sim_use and Toll_Free_Abuse add their columns to a
\* .copy() of the filtered rows and Tower_Jumping to the new table that
\* sort_values returns; SIM_Swapping assigns time_bucket to its argument
table_after(d, table, config) ==
    IF d = SIM_Swapping
    THEN assign_column(table, "time_bucket",
            [i \in DOMAIN table.data |->
                floor_to(table.data[i].start_time, config.window)])
    ELSE table

\* analyze_logic of page d on the rows of a table: the set of the results
\* it can return
analyze_logic(d, data, config) ==
    CASE d = Call_Spikes -> {analyze_call_spikes(data, config.intl, config.spike)}
      [] d = Strange_sim_use -> {analyze_strange_sim(data, config.intl)}
      [] d = Toll_Free_Abuse -> analyze_toll_free(data, config.threshold, config.prefixes)
      [] d = SIM_Swapping -> {analyze_sim_swap(data, config.window, config.threshold)}
      [] d = Tower_Jumping -> {[findings |-> analyze_tower(data, config.dist, config.time)]}

\* rows for each page: some that its rule flags, some with a start_time
\* that does not parse, some with identifiers as a spreadsheet's floats,
\* some with an empty cell in a required field
PageRows(d) ==
    CASE d \in {Call_Spikes, Strange_sim_use} ->
            {Row("9876500001", n, "mo", 60) : n \in {"919812300000", "442070000000"}}
            \cup {Row("9876500001", "442070000000", "MT", NaT),
                  Row("9876500001.0", "442070000000.0", "mo", 60),
                  Row("9876500001", NaN, "mo", 60)}
      [] d = Toll_Free_Abuse ->
            {Row("9876500001", n, "mo", 60) : n \in {"18009991111", "918001234567"}}
            \cup {Row("9876500001", "18009991111", "mo", NaT),
                  Row("9876500001.0", "18009991111.0", "mo", 60)}
      [] d = SIM_Swapping ->
            {SimRow(i, "356938035643809", "9876500002", t) :
                i \in {"404450000000001", "404450000000002"}, t \in {10, 40, NaT}}
            \cup {SimRow("404450000000001.0", "356938035643809.0", "9876500002.0", 10),
                  SimRow(NaN, "356938035643809", "9876500002", 10),
                  SimRow("404450000000001", "356938035643809", "9876500003", 10)}
      [] d = Tower_Jumping ->
            {TowerRow(TowerSlots[k], Towers[n]) : k \in {1, 2, 7}, n \in {1, 4}}
            \cup {TowerRow([imsi |-> "404450000000001.0", start_time |-> 1], Towers[4]),
                  TowerRow(TowerSlots[2], Towers[5])}

\* a setting of each page's parameters
PageConfig(d) ==
    CASE d \in {Call_Spikes, Strange_sim_use} -> [intl |-> 1, spike |-> 1]
      [] d = Toll_Free_Abuse -> [threshold |-> 1, prefixes |-> "1800, 1860"]
      [] d = SIM_Swapping -> [window |-> "30min", threshold |-> [num |-> 6, den |-> 10]]
      [] d = Tower_Jumping -> [dist |-> 10, time |-> 5]

InitCalls ==
    /\ df = [columns |-> << >>, data |-> << >>]
    /\ ndf = df
    /\ ndf2 = df
    /\ npc = "input"
    /\ runs = 0
    /\ session = NewSession
    /\ last = NoRun
    /\ det \in Detectors
    /\ rows \in TablesOver(PageRows(det))
    /\ cfg = PageConfig(det)
    /\ out = NoOutput
    /\ out2 = NoOutput
    /\ tbl = NoTable
    /\ apc = "input"

\* analyze_logic(df, ...) on the table that parse_cdr and validate_input
\* have returned
CallAnalyzeLogic ==
    /\ apc = "input"
    /\ LET given == parsed_table(det, rows)
       IN  /\ out' \in analyze_logic(det, given.data, cfg)
           /\ tbl' = table_after(det, given, cfg)
    /\ apc' = "done"
    /\ UNCHANGED <<det, df, ndf, ndf2, npc, runs, session, last, rows, cfg, out2>>

\* analyze_logic(df, ...) once more, on the table as the first call left it
CallAgain ==
    /\ apc = "done"
    /\ out2' \in analyze_logic(det, tbl.data, cfg)
    /\ tbl' = table_after(det, tbl, cfg)
    /\ apc' = "again"
    /\ UNCHANGED <<det, df, ndf, ndf2, npc, runs, session, last, rows, cfg, out>>

NextCalls == CallAnalyzeLogic \/ CallAgain

SpecCalls == InitCalls /\ [][NextCalls]_vars

\* analyze_logic of Tower_Jumping on a table and on the same rows in
\* another order, as another export of the same records lists them
InitOrder ==
    /\ InitAnalysis
    /\ det = Tower_Jumping
    /\ rows \in TablesOver(PageRows(Tower_Jumping))
    /\ cfg = PageConfig(Tower_Jumping)

AnalyzeReordered ==
    /\ apc = "input"
    /\ \E p \in Permutations(DOMAIN rows) :
        LET reordered == [i \in DOMAIN rows |-> rows[p[i]]]
        IN  /\ tbl' = parsed_table(det, reordered)
            /\ out' \in analyze_logic(det, parsed_table(det, rows).data, cfg)
            /\ out2' \in analyze_logic(det, tbl'.data, cfg)
    /\ apc' = "done"
    /\ UNCHANGED <<det, df, ndf, ndf2, npc, runs, session, last, rows, cfg>>

NextOrder == AnalyzeReordered

SpecOrder == InitOrder /\ [][NextOrder]_vars

\* analyze_logic of a page on one table under two settings of its
\* parameters, of which the second is at least as strict as the first in
\* every parameter
Settings(d) ==
    CASE d \in {Call_Spikes, Strange_sim_use} ->
            [intl : 1..MaxThreshold, spike : 1..MaxThreshold]
      [] d = Toll_Free_Abuse -> [threshold : 1..MaxThreshold, prefixes : {"1800, 1860"}]
      [] d = SIM_Swapping -> [window : {"30min"}, threshold : Thresholds]
      [] d = Tower_Jumping -> [dist : {10, 200}, time : {0, 5}]

AsStrict(d, loose, strict) ==
    CASE d \in {Call_Spikes, Strange_sim_use} ->
            strict.intl >= loose.intl /\ strict.spike >= loose.spike
      [] d = Toll_Free_Abuse -> strict.threshold >= loose.threshold
      [] d = SIM_Swapping -> not_below(strict.threshold, loose.threshold)
      [] d = Tower_Jumping -> strict.dist >= loose.dist /\ strict.time <= loose.time

InitStrict ==
    /\ InitAnalysis
    /\ det \in Detectors
    /\ rows \in TablesOver(PageRows(det))
    /\ cfg \in {c \in [loose : Settings(det), strict : Settings(det)] :
                    AsStrict(det, c.loose, c.strict)}

AnalyzeTwice ==
    /\ apc = "input"
    /\ LET given == parsed_table(det, rows)
       IN  /\ out' \in analyze_logic(det, given.data, cfg.loose)
           /\ out2' \in analyze_logic(det, given.data, cfg.strict)
    /\ apc' = "done"
    /\ UNCHANGED <<det, df, ndf, ndf2, npc, runs, session, last, rows, cfg, tbl>>

NextStrict == AnalyzeTwice

SpecStrict == InitStrict /\ [][NextStrict]_vars

----------------------------------------------------------------------------
(* The three call detectors on one table.                                  *)

\* rows of which none, some or all pass the filters of the three call
\* detectors: a toll-free, a foreign and a domestic number; an incoming, an
\* outgoing and a missing direction
FilterRows ==
    {Row("9876500001", n, d, 60) :
        n \in {"18009991111", "442070000000", "919812300000"},
        d \in {"MT", "mo", NaN}}

InitFilter ==
    /\ InitAnalysis
    /\ det \in {Call_Spikes, Strange_sim_use, Toll_Free_Abuse}
    /\ rows \in TablesOver(FilterRows)
    /\ cfg \in [intl : 1..MaxThreshold, spike : {1}, threshold : {1}, prefixes : {"1800"}]

NextFilter == AnalyzeCallSpikes \/ AnalyzeStrangeSim \/ AnalyzeTollFree

SpecFilter == InitFilter /\ [][NextFilter]_vars

----------------------------------------------------------------------------
(* One page: run() is executed from top to bottom at every script run;     *)
(* st.session_state outlives the run.  The findings tables and the report  *)
(* of a run are identified by the run that made them and the file they     *)
(* were made from.                                                         *)

\* the field of a page's map with canonical name std
FieldOf(d, std) == CHOOSE e \in Range(CDR_COLUMN_MAP(d)) : e.std = std

\* the uploaded files of a page, by their column labels: (1) the required
\* columns under their canonical names, (2) under the last synonym of each,
\* (3) and (4) with required columns left out, (5) complete, with a second
\* spelling of start_time
FileColumns(d, f) ==
    LET req == REQUIRED_COLUMNS(d)
    IN  CASE f = 1 -> req
          [] f = 2 -> [i \in DOMAIN req |->
                        LET vs == FieldOf(d, req[i]).variants IN vs[Len(vs)]]
          [] f = 3 -> SubSeq(req, 1, 1) \o SubSeq(req, 3, Len(req))
          [] f = 4 -> SubSeq(req, 3, Len(req))
          [] f = 5 -> Append(req, "Start Time")

Files == 1..5

\* pd.read_csv / pd.read_excel of the uploaded file
read_file(d, f) ==
    [columns |-> FileColumns(d, f), data |-> [i \in DOMAIN FileColumns(d, f) |-> i]]

\* the columns parse_cdr indexes as df[col] to coerce them; df[col] of a
\* label that two columns carry is a DataFrame, on which pd.to_datetime,
\* pd.to_numeric and the .str accessor raise
Coerced(d) ==
    CASE d = Call_Spikes -> {"start_time"}
      [] d = Strange_sim_use -> {"start_time", "calling_number", "called_number"}
      [] d = Toll_Free_Abuse -> {"start_time", "calling_number", "called_number"}
      [] d = SIM_Swapping -> {"start_time", "imsi", "imei", "called_number"}
      [] d = Tower_Jumping -> {"start_time", "latitude", "longitude"}

\* the pages whose parse_cdr ends with df.dropna(subset=REQUIRED_COLUMNS),
\* which raises KeyError when a label of the subset is not a column
DropsNa == {SIM_Swapping, Tower_Jumping}

\* validate_input: missing = [col for col in REQUIRED_COLUMNS if col not in
\* df.columns]
missing_columns(d, columns) ==
    LET req == REQUIRED_COLUMNS(d)
        RECURSIVE keep(_)
        keep(n) == IF n = 0 THEN << >>
                   ELSE IF req[n] \in Range(columns) THEN keep(n - 1)
                        ELSE Append(keep(n - 1), req[n])
    IN  keep(Len(req))

\* parse_cdr: the normalized table, and whether an exception left it
parse_cdr(d, table) ==
    LET t == normalize_columns(table, CDR_COLUMN_MAP(d))
        twice == {c \in Coerced(d) : Cardinality({i \in DOMAIN t.columns : t.columns[i] = c}) > 1}
    IN  [table |-> t,
         raised |-> \/ twice # {}
                    \/ d \in DropsNa /\ missing_columns(d, t.columns) # << >>]

\* validate_input without its st.stop(): the missing columns are reported
\* and the run goes on
validate_input_nostop(d, table) ==
    [missing |-> missing_columns(d, table.columns), stopped |-> FALSE]

\* validate_input: st.error and st.stop() when a required column is missing
validate_input(d, table) ==
    [missing |-> missing_columns(d, table.columns),
     stopped |-> missing_columns(d, table.columns) # << >>]

\* the "DISPLAY RESULTS" section of a session page, run after the try
\* block: the stored findings when there are any, and the stored report
Display(d, ss, r) ==
    IF d \in SessionPages /\ ss.results # None
    THEN [r EXCEPT !.shown = ss.results, !.download = ss.pdf]
    ELSE r

\* run() on a session page, from the try block on, with the file loaded
\* and parsed: validate_input, analyze_logic, the stores into
\* st.session_state with generate_pdf_report as the last of them, then the
\* display section.  pdf_fails: generate_pdf_report raises.
RunSessionPage(d, ss, n, f, r, t, pdf_fails) ==
    LET v == validate_input(d, t)
        ran == [r EXCEPT !.reported = v.missing, !.validated = ~v.stopped]
        made == [run |-> n, file |-> f]
        stored == [ss EXCEPT !.uploaded_file = f, !.results = made]
    IN  IF v.stopped
        THEN [session |-> ss, last |-> [ran EXCEPT !.outcome = "missing_columns"]]
        ELSE IF pdf_fails
        THEN [session |-> stored,
              last |-> Display(d, stored, [ran EXCEPT !.analyzed = TRUE, !.outcome = "error"])]
        ELSE LET done == [stored EXCEPT !.pdf = made]
             IN  [session |-> done,
                  last |-> Display(d, done, [ran EXCEPT !.analyzed = TRUE, !.outcome = "complete"])]

\* run() of Call_Spikes from the same point: the findings are shown inside
\* the try block and never stored; the report is made when the button is
\* pressed.  button: "Generate PDF Report" is pressed in this run.
RunCallSpikes(d, ss, n, f, r, t, button, pdf_fails) ==
    LET v == validate_input(d, t)
        ran == [r EXCEPT !.reported = v.missing, !.validated = ~v.stopped]
        made == [run |-> n, file |-> f]
        shown == [ran EXCEPT !.analyzed = TRUE, !.shown = made]
    IN  IF v.stopped
        THEN [session |-> ss, last |-> [ran EXCEPT !.outcome = "missing_columns"]]
        ELSE IF button /\ pdf_fails
        THEN [session |-> ss, last |-> [shown EXCEPT !.outcome = "error"]]
        ELSE [session |-> ss,
              last |-> [shown EXCEPT !.outcome = "complete",
                                     !.download = IF button THEN made ELSE None]]

\* run(): script run n of page d with st.session_state ss.  f: the file in
\* the uploader, 0 for none; load_fails: pd.read_csv / pd.read_excel raises.
run(d, ss, n, f, load_fails, button, pdf_fails) ==
    LET r == [NoRun EXCEPT !.file = f]
    IN  IF f = 0
        THEN [session |-> ss, last |-> Display(d, ss, [r EXCEPT !.outcome = "no_file"])]
        ELSE IF load_fails
        THEN [session |-> ss, last |-> Display(d, ss, [r EXCEPT !.outcome = "error"])]
        ELSE LET p == parse_cdr(d, read_file(d, f))
                 parsed == [r EXCEPT !.loaded = TRUE, !.columns = p.table.columns]
             IN  IF p.raised
                 THEN [session |-> ss,
                       last |-> Display(d, ss, [parsed EXCEPT !.outcome = "error"])]
                 ELSE IF d \in SessionPages
                 THEN RunSessionPage(d, ss, n, f, parsed, p.table, pdf_fails)
                 ELSE RunCallSpikes(d, ss, n, f, parsed, p.table, button, pdf_fails)

InitRun ==
    /\ det \in Detectors
    /\ df = [columns |-> << >>, data |-> << >>]
    /\ ndf = df
    /\ ndf2 = df
    /\ npc = "input"
    /\ runs = 0
    /\ session = NewSession
    /\ last = NoRun
    /\ rows = << >>
    /\ cfg = NoConfig
    /\ out = NoOutput
    /\ apc = "input"
    /\ tbl = NoTable
    /\ out2 = NoOutput

Run ==
    /\ runs < MaxRuns
    /\ \E f \in {0} \cup Files, load_fails, button, pdf_fails \in BOOLEAN :
        LET after == run(det, session, runs + 1, f, load_fails, button, pdf_fails)
        IN  /\ session' = after.session
            /\ last' = after.last
    /\ runs' = runs + 1
    /\ UNCHANGED <<det, df, ndf, ndf2, npc, rows, cfg, out, apc, tbl, out2>>

NextRun == Run

SpecRun == InitRun /\ [][NextRun]_vars

----------------------------------------------------------------------------
(* The normalizer on its own: a table is drawn, normalized, and normalized *)
(* again.                                                                  *)

\* column labels of the drawn tables: canonical names, spellings of them
\* that differ by case, spaces or underscores, synonyms early and late in a
\* field's list, and labels that match nothing
ColumnNames ==
    {"start_time", "Start Time", "timestamp", "call_time",
     "calling_number", "Calling Number", "caller",
     "subscriber_id", "remarks"}

\* pd.read_csv / pd.read_excel never deliver two columns with the same label
Tables ==
    {[columns |-> c, data |-> [i \in DOMAIN c |-> i]] :
        c \in {s \in UNION {[1..n -> ColumnNames] : n \in 0..MaxCols} :
                  \A i, j \in DOMAIN s : s[i] = s[j] => i = j}}

InitNorm ==
    /\ det \in Detectors
    /\ df \in Tables
    /\ ndf = df
    /\ ndf2 = df
    /\ npc = "input"
    /\ runs = 0
    /\ session = NewSession
    /\ last = NoRun
    /\ rows = << >>
    /\ cfg = NoConfig
    /\ out = NoOutput
    /\ apc = "input"
    /\ tbl = NoTable
    /\ out2 = NoOutput

Normalize ==
    /\ npc = "input"
    /\ ndf' = normalize_columns(df, CDR_COLUMN_MAP(det))
    /\ npc' = "normalized"
    /\ UNCHANGED <<det, df, ndf2, runs, session, last, rows, cfg, out, apc, tbl, out2>>

Renormalize ==
    /\ npc = "normalized"
    /\ ndf2' = normalize_columns(ndf, CDR_COLUMN_MAP(det))
    /\ npc' = "renormalized"
    /\ UNCHANGED <<det, df, ndf, runs, session, last, rows, cfg, out, apc, tbl, out2>>

NextNorm == Normalize \/ Renormalize

SpecNorm == InitNorm /\ [][NextNorm]_vars

----------------------------------------------------------------------------
(* Claims about the normalizer.                                            *)

\* the fields of a page's column map, and the positions of a label list
Fields(d) == Range(CDR_COLUMN_MAP(d))
Positions(f, columns) == {i \in DOMAIN columns : columns[i] = f}

\* the keys of a list of labels, position by position
Keys(labels) == [i \in DOMAIN labels |-> ColKey(labels[i])]

\* the keys of all synonyms of all fields of a page
SynonymKeys(d) == {VariantKey[x] : x \in UNION {Range(e.variants) : e \in Fields(d)}}

\* the input positions whose column matches no synonym of any field
UnmatchedPositions ==
    LET ik == Keys(df.columns)
        sk == SynonymKeys(det)
    IN  {i \in DOMAIN df.columns : ik[i] \notin sk}

\* C1: normalize_columns is idempotent: normalizing its own result gives
\* the same column labels in the same order, and a table whose labels are
\* all canonical names already is returned as it is.
C1_Idempotent ==
    /\ npc = "renormalized" => ndf2 = ndf
    /\ (npc # "input" /\ \A i \in DOMAIN df.columns :
            \E e \in Fields(det) : df.columns[i] = e.std) => ndf = df

\* C1 witness: a second normalization of a table the first one changed
C1_Witness ==
    /\ npc = "renormalized"
    /\ ndf.columns # df.columns
    /\ \E i \in DOMAIN df.columns : ndf.columns[i] = df.columns[i]

\* C2: after normalize_columns no canonical name labels more than one
\* column.
C2_NoDuplicateCanonical ==
    npc # "input" =>
        \A e \in Fields(det) : Cardinality(Positions(e.std, ndf.columns)) <= 1

\* C3: per canonical field at most one input column is renamed to it, the
\* one whose key is the key of the earliest matching synonym of the field's
\* list; a column matching a later synonym only keeps its label.
C3_FirstSynonymWins ==
    npc # "input" =>
        LET ik == Keys(df.columns)
        IN  \A e \in Fields(det) :
            LET sk == [v \in DOMAIN e.variants |-> VariantKey[e.variants[v]]]
                matching == {v \in DOMAIN sk : sk[v] \in Range(ik)}
                earliest == CHOOSE v \in matching : \A w \in matching : v <= w
                renamed == {i \in DOMAIN df.columns :
                               ndf.columns[i] = e.std /\ df.columns[i] # e.std}
            IN  /\ Cardinality(renamed) <= 1
                /\ matching = {} => Positions(e.std, ndf.columns) = {}
                /\ matching # {} =>
                    /\ \E i \in Positions(e.std, ndf.columns) : ik[i] = sk[earliest]
                    /\ \A i \in renamed : ik[i] = sk[earliest]
                    /\ \A i \in DOMAIN df.columns :
                            (ik[i] \in Range(sk) /\ ik[i] # sk[earliest])
                            => ndf.columns[i] = df.columns[i]

\* C3 witness: an earlier and a later synonym of start_time are both in the
\* input; the earlier one is renamed and the later one keeps its label
C3_Witness ==
    /\ npc = "normalized"
    /\ \E i, j \in DOMAIN df.columns :
        /\ df.columns[i] = "timestamp" /\ ndf.columns[i] = "start_time"
        /\ df.columns[j] = "call_time" /\ ndf.columns[j] = "call_time"

\* C4: a column that matches no synonym keeps its label and its position,
\* the number of columns and the values do not change, and a table none of
\* whose columns matches comes back as it is.
C4_UnmatchedPassThrough ==
    npc # "input" =>
        LET unmatched == UnmatchedPositions
        IN  /\ Len(ndf.columns) = Len(df.columns)
            /\ ndf.data = df.data
            /\ \A i \in unmatched : ndf.columns[i] = df.columns[i]
            /\ unmatched = DOMAIN df.columns => ndf = df

\* C4 witness: a table with a renamed column and an unmatched one whose
\* label is not its own key
C4_Witness ==
    /\ npc = "normalized"
    /\ \E j \in DOMAIN df.columns : ndf.columns[j] # df.columns[j]
    /\ \E i \in UnmatchedPositions : ColKey(df.columns[i]) # df.columns[i]

----------------------------------------------------------------------------
(* Claims about a page's run().                                            *)

\* the required columns that are not columns of the latest run's table
\* after normalization
AbsentRequired ==
    {c \in Range(REQUIRED_COLUMNS(det)) : c \notin Range(last.columns)}

\* C5: on every page, a run whose table lacks required columns after
\* normalization ends in validate_input's missing-columns outcome, which
\* reports exactly the absent required names; no earlier step fails first.
C5_MissingColumnsReported ==
    (last.loaded /\ AbsentRequired # {}) =>
        /\ last.outcome = "missing_columns"
        /\ Range(last.reported) = AbsentRequired

\* C6: analyze_logic runs only after validate_input has returned without
\* stopping on the same table; a run whose table lacks a required column
\* never calls analyze_logic and neither stores nor shows findings or a
\* report of its own.
C6_AnalyzeOnlyAfterValidation ==
    /\ last.analyzed => (last.validated /\ AbsentRequired = {})
    /\ (last.loaded /\ AbsentRequired # {}) =>
        /\ ~last.analyzed
        /\ session.results.run # runs
        /\ session.pdf.run # runs
        /\ last.shown.run # runs

\* C6 witness: after a run that stored findings, a run on a file that lacks
\* a required column
C6_Witness ==
    /\ runs >= 2
    /\ last.loaded
    /\ AbsentRequired # {}
    /\ session.results # None

\* C7: when the latest run of a page ended in its except clause, no
\* findings table of an earlier run is still stored and shown.
C7_NoFindingsAfterFailure ==
    last.outcome = "error" => ~(last.shown # None /\ last.shown.run < runs)

----------------------------------------------------------------------------
(* Claims about the call detectors.                                        *)

\* the rows analyze_logic is given, and the callers among them
Parsed == parse_rows(det, rows)
Callers == {r.calling_number : r \in Range(Parsed)} \ {NaN}

\* the number of rows of caller c that the page counts as international
\* outgoing calls
InternationalCalls(c) ==
    Len(SelectSeq(Parsed, LAMBDA r : /\ r.calling_number = c
                                 /\ is_outgoing(det, r.call_direction)
                                 /\ is_international(det, r)))

\* C8: the international scoring compares strictly: a caller with exactly
\* threshold + 1 international outgoing calls is in the findings with that
\* count, a caller with exactly threshold such calls is not in them; on the
\* Call_Spikes page and on the Strange_sim_use page, for every threshold.
C8_StrictInternationalThreshold ==
    apc = "done" =>
        \A c \in Callers :
            /\ InternationalCalls(c) = cfg.intl + 1 =>
                    [calling_number |-> c,
                     international_call_count |-> cfg.intl + 1] \in out.intl
            /\ InternationalCalls(c) = cfg.intl =>
                    \A g \in out.intl : g.calling_number # c

\* C8 witness: one caller just above the threshold and in the findings,
\* another exactly at the threshold and not in them
C8_Witness ==
    /\ apc = "done"
    /\ \E c1, c2 \in Callers :
        /\ InternationalCalls(c1) = cfg.intl + 1
        /\ InternationalCalls(c2) = cfg.intl
        /\ \E g \in out.intl : g.calling_number = c1

\* C9: Call_Spikes takes a record for outgoing exactly when its
\* call_direction is, whatever its case, one of MO, OUTGOING, CALL OUT, 1;
\* the filters of Call_Spikes, Strange_sim_use and Toll_Free_Abuse classify
\* every record alike.
C9_OutgoingCodes ==
    (apc = "done" /\ det = Call_Spikes) =>
        /\ out.outgoing =
            SelectSeq(Parsed, LAMBDA r :
                upper(r.call_direction) \in {"MO", "OUTGOING", "CALL OUT", "1"})
        /\ \A r \in Range(Parsed) :
            /\ is_outgoing(Call_Spikes, r.call_direction)
                    = is_outgoing(Strange_sim_use, r.call_direction)
            /\ is_outgoing(Call_Spikes, r.call_direction)
                    = is_outgoing(Toll_Free_Abuse, r.call_direction)

\* the number of outgoing rows of caller c whose start_time lies in the
\* hour that begins at minute h
CallsInHour(c, h) ==
    Len(SelectSeq(Parsed, LAMBDA r : /\ r.calling_number = c
                                 /\ is_outgoing(det, r.call_direction)
                                 /\ r.start_time # NaT
                                 /\ h <= r.start_time
                                 /\ r.start_time < h + MinutesPerHour))

\* the minutes at which the hours of the rows begin
Hours ==
    {h \in 0..(2 * MinutesPerHour) :
        h % MinutesPerHour = 0 /\ \E c \in Callers : CallsInHour(c, h) > 0}

\* C10: a (caller, hour) group is in the hourly findings exactly when the
\* number of the caller's outgoing records that start in that hour is
\* strictly above the spike threshold; the reported calls_in_hour is that
\* number, so records of different hours are never added up.
C10_HourlySpike ==
    (apc = "done" /\ det = Call_Spikes) =>
        /\ \A c \in Callers : \A h \in Hours :
                CallsInHour(c, h) > cfg.spike <=>
                    [calling_number |-> c, hour_window |-> h,
                     calls_in_hour |-> CallsInHour(c, h)] \in out.spikes
        /\ \A g \in out.spikes :
                /\ g.hour_window \in Hours
                /\ g.calls_in_hour = CallsInHour(g.calling_number, g.hour_window)

\* C10 witness: a flagged group of a caller who also has an outgoing call
\* in another hour
C10_Witness ==
    /\ apc = "done"
    /\ \E g \in out.spikes : \E h \in Hours :
        /\ h # g.hour_window
        /\ CallsInHour(g.calling_number, h) > 0

----------------------------------------------------------------------------
(* Claims about the filters and the Toll-Free detector.                    *)

\* the direction codes the specification takes for outgoing
SpecOutgoing(r) == upper(astype_str(r.call_direction)) \in {"MO", "OUTGOING", "CALL OUT", "1"}

\* the rows that pass the filters of the Strange_sim_use page
StrangePass(r) ==
    /\ SpecOutgoing(r)
    /\ SubSeq(r.called_number, 1, 2) # "91"
    /\ Len(r.called_number) > 6

\* the rows that pass the filters of the Toll_Free_Abuse page
TollPass(r) ==
    /\ SpecOutgoing(r)
    /\ \E p \in Range(parse_prefixes(cfg.prefixes)) :
            /\ Len(p) <= Len(r.called_number)
            /\ SubSeq(r.called_number, 1, Len(p)) = p

\* C11: with no outgoing record, Call_Spikes returns two empty findings
\* tables; with no record that passes its filters, Strange_sim_use returns
\* an empty table and Toll_Free_Abuse two empty tables; the analysis
\* returns, it does not fail.
C11_EmptyFindings ==
    apc = "done" =>
        /\ (det = Call_Spikes /\ \A r \in Range(Parsed) : ~SpecOutgoing(r))
                => (out.intl = {} /\ out.spikes = {})
        /\ (det = Strange_sim_use /\ \A r \in Range(Parsed) : ~StrangePass(r))
                => out.intl = {}
        /\ (det = Toll_Free_Abuse /\ \A r \in Range(Parsed) : ~TollPass(r))
                => (out.abusive = {} /\ out.top = {})

\* C11 witness: an analysis of a table of more rows than the threshold, all
\* with a foreign number and none outgoing, that returned empty tables
C11_Witness ==
    /\ apc = "done"
    /\ det = Call_Spikes
    /\ Len(rows) > cfg.intl
    /\ \A r \in Range(Parsed) : ~SpecOutgoing(r) /\ r.called_number = "442070000000"
    /\ out.intl = {}
    /\ out.spikes = {}

\* the selected toll-free calls of the table: the outgoing rows whose
\* called_number has a configured prefix at position 0
TollFreeCalls == SelectSeq(Parsed, TollPass)

\* C12: the Toll-Free detector selects an outgoing record exactly when its
\* called_number begins with at least one configured prefix: with the
\* prefix 1800, 18009991111 is selected and 918001234567, which has 1800
\* further in, is not; a record that matches several prefixes is selected
\* once and counted once.
C12_PrefixMatch ==
    (apc = "done" /\ det = Toll_Free_Abuse) =>
        /\ out.calls = TollFreeCalls
        /\ \A r \in Range(Parsed) :
            (is_outgoing(det, r.call_direction) /\ cfg.prefixes = "1800") =>
                /\ r.called_number = "18009991111" => r \in Range(out.calls)
                /\ r.called_number = "918001234567" => r \notin Range(out.calls)
        /\ \A g \in out.top :
            g.total_calls =
                Len(SelectSeq(Parsed, LAMBDA r : TollPass(r) /\ r.called_number = g.called_number))

\* C12 witness: two outgoing records under the prefix list "1800, 18", one
\* that begins with both prefixes and one that has them further in; the
\* first alone is selected, and it is counted once
C12_Witness ==
    /\ apc = "done"
    /\ cfg.prefixes = "1800, 18"
    /\ Len(rows) = 2
    /\ rows[1] = Row("9876500001", "18009991111", "mo", 60)
    /\ rows[2] = Row("9876500001", "918001234567", "mo", 60)
    /\ out.calls = <<rows[1]>>
    /\ out.top = {[called_number |-> "18009991111", total_calls |-> 1]}

\* the number of selected toll-free calls of caller c that start on the
\* day with number day
DailyCalls(c, day) ==
    Len(SelectSeq(TollFreeCalls, LAMBDA r : /\ r.calling_number = c
                                        /\ r.start_time # NaT
                                        /\ day * MinutesPerDay <= r.start_time
                                        /\ r.start_time < (day + 1) * MinutesPerDay))

\* the days on which the rows start
Days == {day \in 0..1 : \E c \in Callers : DailyCalls(c, day) > 0}

\* C13: a (caller, date) group is in the abuse findings exactly when the
\* number of the caller's selected toll-free calls on that date is strictly
\* above the daily threshold; the reported call_count is that number, so
\* calls of one caller on different dates are never added up.
C13_DailyAbuse ==
    (apc = "done" /\ det = Toll_Free_Abuse) =>
        /\ \A c \in Callers : \A day \in Days :
                DailyCalls(c, day) > cfg.threshold <=>
                    [calling_number |-> c, call_date |-> day,
                     call_count |-> DailyCalls(c, day)] \in out.abusive
        /\ \A g \in out.abusive :
                /\ g.call_date \in Days
                /\ g.call_count = DailyCalls(g.calling_number, g.call_date)

\* C13 witness: a flagged group of a caller who also has a toll-free call
\* on the day before, which is not in the group's count
C13_Witness ==
    /\ apc = "done"
    /\ \E g \in out.abusive :
        /\ g.call_date = 1
        /\ DailyCalls(g.calling_number, 0) > 0
        /\ g.call_count = cfg.threshold + 1

\* C14: the top-targets table is made from the selected toll-free calls
\* alone, whatever the daily threshold: it has at most 10 rows (all the
\* destinations when there are no more than 10), one per distinct
\* called_number, each with the destination's total count over all callers
\* and dates, and no destination left out has a larger count than a
\* destination listed.
C14_TopTargets ==
    (apc = "done" /\ det = Toll_Free_Abuse) =>
        LET calls == TollFreeCalls
            destinations == {r.called_number : r \in Range(calls)}
            total_calls == [n \in destinations |->
                                Len(SelectSeq(calls, LAMBDA r : r.called_number = n))]
            listed == {g.called_number : g \in out.top}
        IN  /\ Cardinality(out.top) <= TopTargets
            /\ Cardinality(out.top) =
                    IF Cardinality(destinations) <= TopTargets
                    THEN Cardinality(destinations) ELSE TopTargets
            /\ Cardinality(listed) = Cardinality(out.top)
            /\ listed \subseteq destinations
            /\ \A g \in out.top : g.total_calls = total_calls[g.called_number]
            /\ \A n \in destinations \ listed :
                    \A g \in out.top : total_calls[n] <= g.total_calls

\* C14 witness: calls to more than 10 toll-free destinations, some of them
\* called twice; 10 are listed, the ones called twice among them, and one
\* that was called once is left out
C14_Witness ==
    /\ apc = "done"
    /\ Cardinality({r.called_number : r \in Range(out.calls)}) > TopTargets
    /\ Cardinality(out.top) = TopTargets
    /\ \E g \in out.top : g.total_calls = 2
    /\ \E g \in out.top : g.total_calls = 1
    /\ \E r \in Range(out.calls) : \A g \in out.top : g.called_number # r.called_number

----------------------------------------------------------------------------
(* Claims about the SIM-Swap detector.                                     *)

\* the devices of the input records, and the distinct SIMs the input shows
\* with device e; a missing identifier is no identifier
InputImeis == {clean_id(r.imei) : r \in {q \in Range(rows) : q.imei # NaN}}
InputImsis(e) ==
    {clean_id(r.imsi) : r \in {q \in Range(rows) : q.imsi # NaN /\ q.imei # NaN
                                                    /\ clean_id(q.imei) = e}}

\* C15: for every input record set, an imei seen with exactly one distinct
\* imsi is not in the device-reuse findings, and an imei seen with two or
\* more distinct imsi values is in them, with unique_imsis the number of
\* distinct imsi values the input shows with that imei.
C15_DeviceReuse ==
    (apc = "done" /\ det = SIM_Swapping) =>
        \A e \in InputImeis :
            /\ Cardinality(InputImsis(e)) = 1 =>
                    \A g \in out.swaps : g.imei # e
            /\ Cardinality(InputImsis(e)) >= 2 =>
                    [imei |-> e, unique_imsis |-> Cardinality(InputImsis(e))] \in out.swaps

\* the buckets of the input records, the SIMs with a record in bucket b,
\* and the distinct numbers SIM i calls in bucket b
InBucket(r, b) ==
    /\ r.start_time # NaT
    /\ b <= r.start_time
    /\ r.start_time < b + WindowMinutes(cfg.window)
Buckets ==
    {b \in 0..120 : b % WindowMinutes(cfg.window) = 0 /\ \E r \in Range(rows) : InBucket(r, b)}
ActiveImsis(b) == {r.imsi : r \in {q \in Range(rows) : InBucket(q, b)}}
Contacts(i, b) == {r.called_number : r \in {q \in Range(rows) : q.imsi = i /\ InBucket(q, b)}}

\* the findings that name SIMs i and j for bucket b
PairFindings(i, j, b) ==
    {g \in out.patterns : g.time_window = b /\ {g.imsi_1, g.imsi_2} = {i, j}}

\* C16: for every bucket and every two distinct SIMs that both have records
\* in it, the pair is in the pattern findings of that bucket exactly when
\* |A /\ B| / |A \/ B| >= similarity_threshold for their sets A and B of
\* called numbers in the bucket; the finding's common_contacts is A /\ B;
\* and two equal sets of three numbers are flagged at every threshold.
C16_PatternSimilarity ==
    (apc = "done" /\ det = SIM_Swapping) =>
        \A b \in Buckets : \A i, j \in ActiveImsis(b) :
            i # j =>
                LET A == Contacts(i, b)
                    B == Contacts(j, b)
                    found == PairFindings(i, j, b)
                IN  /\ found # {} <=>
                            Cardinality(A \cap B) * cfg.threshold.den
                                >= cfg.threshold.num * Cardinality(A \cup B)
                    /\ Cardinality(found) <= 1
                    /\ \A g \in found : g.common_contacts = A \cap B
                    /\ (A = B /\ Cardinality(A) = 3) => found # {}

\* C16 witness: at the threshold 1.0, two SIMs with the same three numbers
\* in a bucket are flagged with a score of 1.00, and a third SIM of that
\* bucket that shares two of the numbers is flagged with neither
C16_Witness ==
    /\ apc = "done"
    /\ cfg.threshold = [num |-> 10, den |-> 10]
    /\ \E g \in out.patterns :
        /\ Cardinality(g.common_contacts) = 3
        /\ g.similarity_score = 100
        /\ \E k \in ActiveImsis(g.time_window) \ {g.imsi_1, g.imsi_2} :
            /\ Cardinality(Contacts(k, g.time_window)) = 2
            /\ PairFindings(k, g.imsi_1, g.time_window) = {}
            /\ PairFindings(k, g.imsi_2, g.time_window) = {}

\* C17: a pattern finding names two SIMs that both have a record whose
\* start_time floors to the finding's time_window, and two SIMs that have
\* no bucket in common are in no finding together, however alike the sets
\* of numbers they call.
C17_SameBucketOnly ==
    (apc = "done" /\ det = SIM_Swapping) =>
        /\ \A g \in out.patterns :
            /\ g.time_window \in Buckets
            /\ g.imsi_1 \in ActiveImsis(g.time_window)
            /\ g.imsi_2 \in ActiveImsis(g.time_window)
        /\ \A i, j \in {r.imsi : r \in Range(rows)} :
            (\A b \in Buckets : ~(i \in ActiveImsis(b) /\ j \in ActiveImsis(b))) =>
                \A g \in out.patterns : {g.imsi_1, g.imsi_2} # {i, j}

\* C17 witness: two SIMs call the same three numbers, one in the first half
\* hour and one in the second; with buckets of 30 minutes no finding names
\* the two, while a finding of another pair exists
C17_Witness ==
    /\ apc = "done"
    /\ cfg.window = "30min"
    /\ \E i, j \in {r.imsi : r \in Range(rows)} :
        /\ i # j
        /\ Contacts(i, 0) = Contacts(j, 30)
        /\ Cardinality(Contacts(i, 0)) = 3
        /\ Contacts(i, 30) = {}
        /\ Contacts(j, 0) = {}
        /\ \A g \in out.patterns : {g.imsi_1, g.imsi_2} # {i, j}
    /\ out.patterns # {}

----------------------------------------------------------------------------
(* Claims about the Tower-Jump detector.                                   *)

\* the positions of the input records that have every required field
ValidPositions == {k \in DOMAIN rows : parse_tower(<<rows[k]>>) # << >>}

\* record j comes before record k in the sequence of their SIM: it is
\* earlier, or as early and supplied before
ComesBefore(j, k) ==
    /\ rows[j].imsi = rows[k].imsi
    /\ \/ rows[j].start_time < rows[k].start_time
       \/ rows[j].start_time = rows[k].start_time /\ j < k

\* the records of the SIM of record k that come before it
Predecessors(k) == {j \in ValidPositions : ComesBefore(j, k)}

\* the immediate predecessor of record k, which has predecessors
Predecessor(k) ==
    CHOOSE j \in Predecessors(k) : \A i \in Predecessors(k) : i = j \/ ComesBefore(i, j)

\* the distance in metres and the minutes between records j and k
Distance(j, k) ==
    haversine_vectorized(rows[j].latitude, rows[j].longitude,
                         rows[k].latitude, rows[k].longitude)
Elapsed(j, k) == rows[k].start_time - rows[j].start_time

\* the finding of record k against record j
Jump(j, k) ==
    [imsi |-> rows[k].imsi, start_time |-> rows[k].start_time,
     from_cell_id |-> rows[j].cell_id, to_cell_id |-> rows[k].cell_id,
     jump_distance_km |-> Distance(j, k), time_gap_minutes |-> Elapsed(j, k)]

\* the valid records that the rule flags
Flagged ==
    {k \in ValidPositions :
        /\ Predecessors(k) # {}
        /\ Distance(Predecessor(k), k) >= cfg.dist * 1000
        /\ Elapsed(Predecessor(k), k) >= 0
        /\ Elapsed(Predecessor(k), k) <= cfg.time}

\* C18: a record is flagged exactly when it has an immediate predecessor in
\* the sequence of its own SIM ordered by start_time and, against that
\* predecessor only, the distance is >= min_distance_km and the elapsed
\* time is between 0 and max_time_min, both included: with 10 km and 5
\* minutes, 100 km in 1 minute is flagged and 100 km in 10 minutes is not.
C18_JumpRule ==
    (apc = "done" /\ det = Tower_Jumping) =>
        /\ Len(out.findings) = Cardinality(Flagged)
        /\ Range(out.findings) = {Jump(Predecessor(k), k) : k \in Flagged}
        /\ \A j, k \in ValidPositions :
            (Predecessors(k) # {} /\ Predecessor(k) = j /\ Distance(j, k) >= 100000) =>
                /\ Elapsed(j, k) = 1 => k \in Flagged
                /\ Elapsed(j, k) = 10 => k \notin Flagged

\* C18 witness: two findings, one of a jump that took exactly max_time_min
\* and one of a jump between two records of the same minute
C18_Witness ==
    /\ apc = "done"
    /\ Len(out.findings) = 2
    /\ \E k \in DOMAIN out.findings : out.findings[k].time_gap_minutes = cfg.time
    /\ \E k \in DOMAIN out.findings : out.findings[k].time_gap_minutes = 0

\* the positions of the valid records of SIM i
RecordsOf(i) == {k \in ValidPositions : rows[k].imsi = i}

\* records j and k are the two valid records of their SIM, and k, supplied
\* after j, has the earlier start_time
OutOfOrderPair(j, k) ==
    /\ j < k
    /\ rows[j].imsi = rows[k].imsi
    /\ RecordsOf(rows[j].imsi) = {j, k}
    /\ rows[k].start_time < rows[j].start_time

\* the findings that name SIM i
FindingsOf(i) == SelectSeq(out.findings, LAMBDA g : g.imsi = i)

\* C19 as stated: no finding has a negative elapsed time, and two records
\* of a SIM that are supplied out of timestamp order produce no finding,
\* whatever the distance between them.
C19_OutOfOrderNeverFlagged ==
    (apc = "done" /\ det = Tower_Jumping) =>
        /\ \A g \in Range(out.findings) : g.time_gap_minutes >= 0
        /\ \A j, k \in ValidPositions :
            OutOfOrderPair(j, k) => FindingsOf(rows[j].imsi) = << >>

\* C19 as amended: no finding has a negative elapsed time, because the
\* records of a SIM are ordered by start_time before they are compared; two
\* records of a SIM that are supplied out of timestamp order are compared
\* with the earlier one as the predecessor, and produce a finding exactly
\* when the distance between them is >= min_distance_km and the time
\* between them is <= max_time_min.
C19_ComparedInTimeOrder ==
    (apc = "done" /\ det = Tower_Jumping) =>
        /\ \A g \in Range(out.findings) : g.time_gap_minutes >= 0
        /\ \A j, k \in ValidPositions :
            OutOfOrderPair(j, k) =>
                FindingsOf(rows[j].imsi) =
                    IF Distance(k, j) >= cfg.dist * 1000 /\ Elapsed(k, j) <= cfg.time
                    THEN <<Jump(k, j)>> ELSE << >>

\* C19 witness: two records of a SIM, the later one supplied first, and the
\* finding of the jump from the earlier to the later
C19_Witness ==
    /\ apc = "done"
    /\ \E j, k \in ValidPositions :
        /\ OutOfOrderPair(j, k)
        /\ out.findings = <<Jump(k, j)>>
        /\ Elapsed(k, j) > 0

\* C20: the first record of a SIM is in no finding: every finding of a SIM
\* is the jump to one of its valid records from another one that comes
\* before it, a SIM has at most one finding fewer than it has valid
\* records, and a SIM with a single record has none.
C20_FirstRecordNeverFlagged ==
    (apc = "done" /\ det = Tower_Jumping) =>
        /\ \A g \in Range(out.findings) :
            \E k \in RecordsOf(g.imsi) :
                /\ Predecessors(k) # {}
                /\ g = Jump(Predecessor(k), k)
        /\ \A i \in {rows[k].imsi : k \in ValidPositions} :
            /\ Len(FindingsOf(i)) <= Cardinality(RecordsOf(i)) - 1
            /\ Cardinality(RecordsOf(i)) = 1 => FindingsOf(i) = << >>

\* C20 witness: a SIM of which every record but the first is flagged, and
\* another SIM with a single record, 100 km from a record of the first SIM
\* at the same minute, and no finding
C20_Witness ==
    /\ apc = "done"
    /\ \E i, j \in {rows[k].imsi : k \in ValidPositions} :
        /\ Cardinality(RecordsOf(i)) >= 3
        /\ Len(FindingsOf(i)) = Cardinality(RecordsOf(i)) - 1
        /\ Cardinality(RecordsOf(j)) = 1
        /\ FindingsOf(j) = << >>
        /\ \E a \in RecordsOf(i) : \E b \in RecordsOf(j) :
            /\ rows[a].start_time = rows[b].start_time
            /\ Distance(a, b) >= 100000

----------------------------------------------------------------------------
(* Claims about all the detectors.                                         *)

\* C21: analyze_logic of no page changes the table it is given: after a
\* call the caller's table has the columns and the rows it had before, and
\* a second call on the same table returns what the first returned.
C21_ArgumentUnchanged ==
    /\ apc \in {"done", "again"} => tbl = parsed_table(det, rows)
    /\ apc = "again" => out2 = out

\* C22: a record whose start_time cannot be parsed does not stop the
\* analysis; it is in no hourly group, no daily group, no time bucket and no
\* predecessor sequence, and it is counted by the international count, the
\* toll-free top targets and the device reuse.
C22_UnparsableTime ==
    apc = "done" =>
        /\ det = Call_Spikes =>
            /\ \A g \in out.spikes :
                    g.calls_in_hour = CallsInHour(g.calling_number, g.hour_window)
            /\ \A c \in Callers :
                    InternationalCalls(c) > cfg.intl <=>
                        [calling_number |-> c,
                         international_call_count |-> InternationalCalls(c)] \in out.intl
        /\ det = Strange_sim_use =>
            \A c \in Callers :
                InternationalCalls(c) > cfg.intl <=>
                    [calling_number |-> c,
                     international_call_count |-> InternationalCalls(c)] \in out.intl
        /\ det = Toll_Free_Abuse =>
            /\ \A g \in out.abusive :
                    g.call_count = DailyCalls(g.calling_number, g.call_date)
            /\ \A n \in {r.called_number : r \in Range(TollFreeCalls)} :
                    [called_number |-> n,
                     total_calls |-> Len(SelectSeq(TollFreeCalls,
                                        LAMBDA r : r.called_number = n))] \in out.top
        /\ det = SIM_Swapping =>
            /\ \A g \in out.patterns :
                    {g.imsi_1, g.imsi_2} \subseteq ActiveImsis(g.time_window)
            /\ \A e \in InputImeis :
                    Cardinality(InputImsis(e)) >= 2 =>
                        [imei |-> e, unique_imsis |-> Cardinality(InputImsis(e))] \in out.swaps
        /\ det = Tower_Jumping =>
            Range(out.findings) = {Jump(Predecessor(k), k) : k \in Flagged}

\* the identifier fields that a page compares or groups on
Identifiers(d) ==
    CASE d \in {Call_Spikes, Strange_sim_use, Toll_Free_Abuse} ->
            {"calling_number", "called_number"}
      [] d = SIM_Swapping -> {"imsi", "imei", "called_number"}
      [] d = Tower_Jumping -> {"imsi"}

\* an identifier that ends with the artifact ".0"
EndsWithDotZero(x) ==
    x # NaN /\ Len(x) >= 2 /\ SubSeq(x, Len(x) - 1, Len(x)) = ".0"

\* C23: after parse_cdr of every page, no identifier field that the page
\* compares or groups on ends with ".0", so 91999.0 and 91999 are one
\* identifier for the page's equality, grouping and prefix tests.
C23_IdentifiersCleaned ==
    apc = "done" =>
        \A r \in Range(parsed_table(det, rows).data) :
            \A f \in Identifiers(det) : ~EndsWithDotZero(r[f])

\* a record with an empty cell in a required field other than start_time
HasNullField(d, r) ==
    LET required == REQUIRED_COLUMNS(d)
    IN  \E i \in DOMAIN required :
            required[i] # "start_time" /\ isna_tower(required[i], r[required[i]])

\* the records of a table without those that have such an empty cell
WithoutNulls(d, table) == SelectSeq(table, LAMBDA r : ~HasNullField(d, r))

\* the findings tables among what analyze_logic of a page returns
Findings(d, o) ==
    CASE d \in {Call_Spikes, Strange_sim_use} -> [intl |-> o.intl, spikes |-> o.spikes]
      [] d = Toll_Free_Abuse -> [abusive |-> o.abusive, top |-> o.top]
      [] d = SIM_Swapping -> [swaps |-> o.swaps, patterns |-> o.patterns]
      [] d = Tower_Jumping -> [findings |-> o.findings]

\* C24: a record with a null in a field the page requires contributes to
\* no finding: the findings are those of the table without such records,
\* so a null imsi or imei is no identifier of SIM-Swap device reuse or
\* pattern similarity and a null called_number is no international call
\* of Call-Spikes.
C24_NullNeverContributes ==
    apc = "done" =>
        \E o \in analyze_logic(det, parsed_table(det, WithoutNulls(det, rows)).data, cfg) :
            Findings(det, o) = Findings(det, out)

----------------------------------------------------------------------------
(* Claims about the two measures.                                          *)

\* C25: calculate_jaccard_similarity returns 1.0 for a non-empty set
\* compared with itself and 0.0 when either argument is empty, is
\* symmetric in its arguments, lies in [0,1], and is 1.0 only when the two
\* sets are equal.
C25_Jaccard ==
    apc = "done" =>
        /\ (cfg.set_a # {} /\ cfg.set_a = cfg.set_b) => out.num = out.den
        /\ (cfg.set_a = {} \/ cfg.set_b = {}) => out.num = 0
        /\ out2.num * out.den = out.num * out2.den
        /\ 0 <= out.num /\ out.num <= out.den /\ out.den > 0
        /\ out.num = out.den => cfg.set_a = cfg.set_b

\* C25 witness: two different sets that share one of their three called
\* numbers have been compared, with 1/3 as the result.
C25_Witness ==
    /\ apc = "done"
    /\ cfg.set_a # cfg.set_b
    /\ cfg.set_a \cap cfg.set_b # {}
    /\ out = [num |-> 1, den |-> 3]

----------------------------------------------------------------------------
(* Claims about the prefix list of the Toll-Free detector.                 *)

\* s has nothing but blanks from position a to position b
BlankBetween(s, a, b) == \A k \in a..b : SubSeq(s, k, k) \in Whitespace

\* the entries of a prefix list: the pieces without a comma that begin and
\* end with a character that is no blank, with nothing but blanks from the
\* comma before (or the start) and up to the comma after (or the end)
Entries(s) ==
    {SubSeq(s, i, j) : <<i, j>> \in
        {ij \in (1..Len(s)) \X (1..Len(s)) :
            /\ ij[1] <= ij[2]
            /\ \A k \in ij[1]..ij[2] : SubSeq(s, k, k) # ","
            /\ SubSeq(s, ij[1], ij[1]) \notin Whitespace
            /\ SubSeq(s, ij[2], ij[2]) \notin Whitespace
            /\ \E a \in 0..(ij[1] - 1) :
                /\ a = 0 \/ SubSeq(s, a, a) = ","
                /\ BlankBetween(s, a + 1, ij[1] - 1)
            /\ \E b \in (ij[2] + 1)..(Len(s) + 1) :
                /\ b = Len(s) + 1 \/ SubSeq(s, b, b) = ","
                /\ BlankBetween(s, ij[2] + 1, b - 1)}}

\* C27: the prefix string is split on commas, each entry is trimmed, and
\* the entries that are empty after trimming are discarded: no prefix is
\* empty, the selected records are the outgoing ones that begin with an
\* entry, and with no usable prefix no record is selected and the outputs
\* are empty.
C27_PrefixParsing ==
    (apc = "done" /\ det = Toll_Free_Abuse) =>
        /\ "" \notin Range(parse_prefixes(cfg.prefixes))
        /\ Range(parse_prefixes(cfg.prefixes)) = Entries(cfg.prefixes)
        /\ out.calls = SelectSeq(Parsed, LAMBDA r :
                            /\ SpecOutgoing(r)
                            /\ \E p \in Entries(cfg.prefixes) : startswith(r.called_number, p))
        /\ Entries(cfg.prefixes) = {} => out = NoTollOutput

\* C27 witness: under the prefix list "1800,,18", with two commas in a
\* row, an outgoing call to 18009991111 is selected and one to
\* 918001234567 is not.
C27_Witness ==
    /\ apc = "done"
    /\ cfg.prefixes = "1800,,18"
    /\ Len(rows) = 2
    /\ rows[1] = Row("9876500001", "18009991111", "mo", 60)
    /\ rows[2] = Row("9876500001", "918001234567", "mo", 60)
    /\ out.calls = <<rows[1]>>

----------------------------------------------------------------------------
(* Claims about the stored results of a page.                              *)

\* C28: on a page that keeps its results in the session state, after any
\* sequence of runs the stored findings and the stored PDF report were
\* produced by the same run: the findings never come from a later run
\* than the report that is offered for download.
C28_FindingsAndReportOfOneRun ==
    (det \in SessionPages /\ session.pdf # None) => session.pdf = session.results

----------------------------------------------------------------------------
(* Claims about the order of the rows and about the thresholds.            *)

\* C29: the Tower-Jump findings do not depend on the order of the input
\* rows: analyze_logic returns the same set of findings on a table and on
\* every permutation of its rows, also when several records of one imsi
\* carry the same start_time.
C29_OrderIndependent ==
    apc = "done" => Range(out.findings) = Range(out2.findings)

\* C30: the findings are anti-monotone in the thresholds: on one record
\* set, a setting that is stricter in international_threshold,
\* hourly_spike_threshold, daily_threshold, similarity_threshold,
\* min_distance_km (raised) or max_time_min (lowered) adds no finding; the
\* findings that remain have the counts and scores they had.
C30_AntiMonotone ==
    apc = "done" =>
        CASE det \in {Call_Spikes, Strange_sim_use} ->
                out2.intl \subseteq out.intl /\ out2.spikes \subseteq out.spikes
          [] det = Toll_Free_Abuse -> out2.abusive \subseteq out.abusive
          [] det = SIM_Swapping ->
                out2.swaps \subseteq out.swaps /\ out2.patterns \subseteq out.patterns
          [] det = Tower_Jumping -> Range(out2.findings) \subseteq Range(out.findings)

\* C30 witness: of two Tower-Jump findings under max_time_min 5, one with
\* a gap of a minute and one with a gap of none, the second alone remains
\* under max_time_min 0, with its distance.
C30_Witness ==
    /\ apc = "done"
    /\ det = Tower_Jumping
    /\ cfg.loose.time = 5 /\ cfg.strict.time = 0
    /\ Len(out.findings) = 2
    /\ Len(out2.findings) = 1
    /\ out2.findings[1] \in Range(out.findings)
    /\ out2.findings[1].time_gap_minutes = 0

=============================================================================
